---- MODULE Spec2Model ----
(***************************************************************************)
(* A state-machine model of the mywm window manager (fcanata061/mywm).     *)
(*                                                                         *)
(* The model follows the evolved tree src/mywm1.0 (WindowManager,          *)
(* WorkspaceManager, EWMHManager, LayoutManager) and, where a property is  *)
(* about them, the first tree (src/layouts, src/main.py).                  *)
(*                                                                         *)
(* Conventions                                                             *)
(*   - a window is its X id, a number of 1..MaxWin; Python's None is 0;    *)
(*   - Python lists are sequences; Python's 0-based indexes are kept in    *)
(*     the values (monitors_active, current_tab, ...) and shifted by one   *)
(*     only where a sequence is indexed;                                   *)
(*   - the X server is the pair xgeom / xmapped: what configure(), map()   *)
(*     and unmap() leave on each window;                                   *)
(*   - `last` is a history variable: the operation that produced the       *)
(*     state, its argument, its return value and what it saw on entry.     *)
(*   - every specification shares the one variable set and has its own     *)
(*     Init and Next; a specification leaves the variables of the parts it *)
(*     does not observe at their initial values (xevents and the EWMH      *)
(*     properties are observed in SpecEwmh, the event loops in SpecLoop).  *)
(***************************************************************************)
EXTENDS Integers, Sequences, FiniteSets, TLC

\* ------------------------------------------------------------------ bounds
\* Window handles are 1..MaxWin.
MaxWin == 3
\* Workspaces created at construction (the `names` list of WorkspaceManager).
NumWs == 2
\* Windows named by workspace-manager calls in the combined specification.
MaxWsWin == 2
\* Largest window count given to the stateless layouts (tiling-stack, bsp).
MaxTileN == 7
\* Largest width / height of the rectangle given to the stateless layouts.
MaxDim == 5
\* Largest window count given to LayoutManager.apply in SpecLayout.
MaxLayN == 3
\* Windows the floating manager is given in SpecFloating.
MaxFmWin == 1
\* Floating-manager operations in one behaviour of SpecFloating.
MaxFmOps == 4
\* messages the manager sent to itself and has not read yet
MaxQueue == 1
\* events each event loop reads in one behaviour of SpecLoop
MaxLoopEv == 3
\* Monitors (entries of WorkspaceManager.monitors_active).
\* passes of the status bar's update thread
MaxTicks == 2
NumMon == 2
\* The root window's size.
ScreenW == 160
ScreenH == 100

\* --------------------------------------------------------- program constants
None == 0
NUL == 0
MIN_W == 50
MIN_H == 30
FLOAT_SNAP == 20
DEFAULT_SNAP == 16
MIN_SIZE == 40
WM_MIN_SIZE == 50
FLOAT_DEF_OFF == 50
TAB_BAR == 20
TILE_W == 800
TILE_H == 600
NUM_LAYOUTS == 7

Max(a, b) == IF a >= b THEN a ELSE b

Windows == 1 .. MaxWin
WsWindows == 1 .. MaxWsWin
\* the windows the X server has created when the window manager starts
AllWin == Windows \cup WsWindows

VARIABLES
    managed,          \* WindowManager.managed: the ids of the ManagedWindows, in order
    floating,         \* the managed windows whose ManagedWindow.floating is True
    focus,            \* WindowManager.focus (None when absent)
    client_list,      \* the last _NET_CLIENT_LIST written by EWMHManager.update_client_list
    raised,           \* TRUE once an operation has let an exception escape to its caller
    cached_geom,      \* each ManagedWindow.cached_geom (NoRect while it is the empty dict)
    workspaces,       \* WorkspaceManager.workspaces: sequence of [windows, focus]
    monitors_active,  \* WorkspaceManager.monitors_active: monitor -> workspace index
    sticky_windows,   \* WorkspaceManager.sticky_windows
    screen,           \* root.get_geometry(): the rectangle layouts are applied against
    xgeom,            \* X server: each window's rectangle
    xmapped,          \* X server: whether each window is mapped
    lm_current,       \* LayoutManager.current (index into LayoutManager.layouts)
    positions,        \* Floating.positions (the floating layout's remembered rectangles)
    current_tab,      \* Tabbed.current_tab
    stack_current,    \* Stacking.current
    lay_wins,         \* the window list handed to a layout in the layout specifications
    lay_out,          \* the configure() calls of the last stateless layout application
    floating_windows, \* FloatingManager.floating_windows
    fm_positions,     \* FloatingManager.positions: window -> saved rectangle (NoRect when absent)
    orig_geom,        \* FloatingManager._orig_geom: window -> rectangle (NoRect when absent)
    fm_drag,          \* FloatingManager._drag (NoDrag when idle)
    pre_float,        \* history: each window's rectangle when it last left tiling (NoRect when unknown)
    net_number_of_desktops, \* root property _NET_NUMBER_OF_DESKTOPS
    net_desktop_names,      \* root property _NET_DESKTOP_NAMES, as the list of names it encodes
    net_current_desktop,    \* root property _NET_CURRENT_DESKTOP
    autostart_run,    \* WorkspaceManager._autostart_run: the keys (monitor, name, command) marked True
    launch_count,     \* history: (monitor, workspace index, command) -> launches so far, capped at 2
    monitors,         \* MultiMonitorManager.monitors: the monitors' rectangles, in detection order
    net_wm_state,     \* each window's property _NET_WM_STATE, as the list of atoms it holds
    net_active_window, \* root property _NET_ACTIVE_WINDOW (None while it was never written)
    xevents,          \* X server: the _NET_ACTIVE_WINDOW messages the manager sent to the root, not yet read
    running,          \* mywm1.0/main.py: the module flag _running
    main_pc,          \* mywm1.0/main.py: where main is ("loop", or how the loop ended)
    main_events,      \* history: the events the mywm1.0 loop has read
    legacy_pc,        \* src/main.py: where main is ("loop", or how the loop ended)
    legacy_events,    \* history: the events the src/main.py loop has read
    xgone,            \* X server: the windows it has destroyed (a request on one gets BadWindow)
    drag_state,       \* WindowManager._drag_state (NoDragState when None)
    bar_state,        \* StatusBar.state: the entries "clock" and "workspace"
    bar_thread_pc,    \* StatusBar._update_loop: where the update thread is
    bar_loop_pc,      \* where the event loop is inside update_workspace ("idle" outside it)
    bar_reqs,         \* the requests written to the display connection since its last flush
    last              \* history: the last operation

regVars == <<managed, floating, focus, client_list, raised, cached_geom>>
wsVars == <<workspaces, monitors_active, sticky_windows>>
xVars == <<screen, xgeom, xmapped>>
lmVars == <<lm_current, positions, current_tab, stack_current>>
layVars == <<lay_wins, lay_out>>
fmVars == <<floating_windows, fm_positions, orig_geom, fm_drag, pre_float>>
deskVars == <<net_number_of_desktops, net_desktop_names, net_current_desktop>>
autoVars == <<autostart_run, launch_count>>
ewmhVars == <<monitors, net_wm_state, net_active_window, xevents>>
loopVars == <<running, main_pc, main_events, legacy_pc, legacy_events>>
srvVars == <<xgone>>
dragVars == <<drag_state>>
barVars == <<bar_state, bar_thread_pc, bar_loop_pc, bar_reqs>>
extVars == <<fmVars, deskVars, autoVars, ewmhVars, loopVars, srvVars, dragVars, barVars>>
vars == <<regVars, wsVars, xVars, lmVars, layVars, extVars, last>>

\* ----------------------------------------------------------------- helpers
Abs(a) == IF a >= 0 THEN a ELSE -a

Range(s) == {s[i] : i \in DOMAIN s}

Contains(s, e) == \E i \in DOMAIN s : s[i] = e

\* list.index(e): the 1-based position of the first e in s (0 when absent)
IndexOf(s, e) == IF Contains(s, e) THEN CHOOSE i \in DOMAIN s : s[i] = e /\ \A j \in 1 .. (i - 1) : s[j] # e ELSE 0

\* list.remove(e): s without its first e
Remove(s, e) == LET i == IndexOf(s, e) IN IF i = 0 THEN s ELSE SubSeq(s, 1, i - 1) \o SubSeq(s, i + 1, Len(s))

NoDup(s) == \A i, j \in DOMAIN s : s[i] = s[j] => i = j

\* int(n ** 0.5)
ISqrt(n) == CHOOSE k \in 0 .. n : k * k <= n /\ (k + 1) * (k + 1) > n

Rect(x, y, w, h) == [x |-> x, y |-> y, width |-> w, height |-> h]

\* the sequence 1, 2, ..., n
Iota(n) == [i \in 1 .. n |-> i]

\* one configure() call: the window and the rectangle asked for
Call(w, r) == [win |-> w, rect |-> r]

\* The X state a layout works on: rectangles, map state, and the floating
\* layout's remembered positions (Floating.apply writes all three).
LState(g, m, p) == [geom |-> g, mapped |-> m, pos |-> p]

Configure(st, w, r) == [st EXCEPT !.geom[w] = r]

Map(st, w) == [st EXCEPT !.mapped[w] = TRUE]

Unmap(st, w) == [st EXCEPT !.mapped[w] = FALSE]

RECURSIVE ConfigureAll(_, _)
ConfigureAll(st, calls) ==
    IF calls = <<>> THEN st
    ELSE ConfigureAll(Map(Configure(st, Head(calls).win, Head(calls).rect), Head(calls).win), Tail(calls))

RECURSIVE UnmapAll(_, _)
UnmapAll(st, wins) ==
    IF wins = <<>> THEN st ELSE UnmapAll(Unmap(st, Head(wins)), Tail(wins))

\* ------------------------------------------------ layouts (core/layouts.py)
\* One window shown with rectangle r, every other window of the list unmapped:
\* the loop shared by Monocle, Tabbed and Stacking (k is the 0-based index shown).
RECURSIVE ShowOnly(_, _, _, _, _)
ShowOnly(wins, i, k, r, st) ==
    IF i > Len(wins) THEN st
    ELSE IF i - 1 = k THEN ShowOnly(wins, i + 1, k, r, Map(Configure(st, wins[i], r), wins[i]))
    ELSE ShowOnly(wins, i + 1, k, r, Unmap(st, wins[i]))

MonocleApply(wins, sg, st) ==
    IF wins = <<>> THEN st
    ELSE ShowOnly(wins, 1, 0, Rect(sg.x, sg.y, sg.width, sg.height), st)

FullscreenApply(wins, sg, st) ==
    IF wins = <<>> THEN st
    ELSE UnmapAll(Map(Configure(st, wins[1], Rect(sg.x, sg.y, sg.width, sg.height)), wins[1]), Tail(wins))

\* _snap_to_edges moving a window near the left edge half of the way to it.
snap_to_edges_halfway(geom, sg) ==
    LET x1 == IF Abs(geom.x - sg.x) < FLOAT_SNAP THEN (geom.x + sg.x) \div 2 ELSE geom.x
        x2 == IF Abs((x1 + geom.width) - (sg.x + sg.width)) < FLOAT_SNAP
              THEN sg.x + sg.width - geom.width ELSE x1
        y1 == IF Abs(geom.y - sg.y) < FLOAT_SNAP THEN sg.y ELSE geom.y
        y2 == IF Abs((y1 + geom.height) - (sg.y + sg.height)) < FLOAT_SNAP
              THEN sg.y + sg.height - geom.height ELSE y1
    IN  Rect(x2, y2, geom.width, geom.height)

\* Floating._snap_to_edges: the four tests run in order on the same dict, the
\* right / bottom test reading the x / y the left / top test may have written.
snap_to_edges(geom, sg) ==
    LET x1 == IF Abs(geom.x - sg.x) < FLOAT_SNAP THEN sg.x ELSE geom.x
        x2 == IF Abs((x1 + geom.width) - (sg.x + sg.width)) < FLOAT_SNAP
              THEN sg.x + sg.width - geom.width ELSE x1
        y1 == IF Abs(geom.y - sg.y) < FLOAT_SNAP THEN sg.y ELSE geom.y
        y2 == IF Abs((y1 + geom.height) - (sg.y + sg.height)) < FLOAT_SNAP
              THEN sg.y + sg.height - geom.height ELSE y1
    IN  Rect(x2, y2, geom.width, geom.height)

\* The rectangle Floating.apply remembers for a window it has no position for.
FloatingDefault(sg) ==
    Rect(sg.x + FLOAT_DEF_OFF, sg.y + FLOAT_DEF_OFF, Max(MIN_W, sg.width \div 2), Max(MIN_H, sg.height \div 2))

\* Floating.apply: the snapped rectangle is written back into positions (the
\* dict is snapped in place) and then configured.
RECURSIVE FloatingApply(_, _, _)
FloatingApply(wins, sg, st) ==
    IF wins = <<>> THEN st
    ELSE LET w == Head(wins)
             p == IF w \in DOMAIN st.pos THEN st.pos[w] ELSE FloatingDefault(sg)
             g == snap_to_edges(p, sg)
             st1 == [Map(Configure(st, w, g), w) EXCEPT !.pos = (w :> g) @@ st.pos]
         IN  FloatingApply(Tail(wins), sg, st1)

\* split_area giving the second half of a vertical split the rounded-down half
\* width (w // 2) instead of the rest (w - w // 2).
RECURSIVE split_area_halves(_, _, _, _, _, _)
split_area_halves(wins, x, y, w, h, vertical) ==
    IF Len(wins) = 0 THEN <<>>
    ELSE IF Len(wins) = 1 THEN <<Call(wins[1], Rect(x, y, w, h))>>
    ELSE LET mid == Len(wins) \div 2
             fst == SubSeq(wins, 1, mid)
             snd == SubSeq(wins, mid + 1, Len(wins))
         IN  IF vertical
             THEN split_area_halves(fst, x, y, w \div 2, h, FALSE) \o split_area_halves(snd, x + w \div 2, y, w \div 2, h, FALSE)
             ELSE split_area_halves(fst, x, y, w, h \div 2, TRUE) \o split_area_halves(snd, x, y + h \div 2, w, h - h \div 2, TRUE)

\* BSP.apply's inner split_area: the configure() calls of the leaves, in order.
RECURSIVE split_area(_, _, _, _, _, _)
split_area(wins, x, y, w, h, vertical) ==
    IF Len(wins) = 0 THEN <<>>
    ELSE IF Len(wins) = 1 THEN <<Call(wins[1], Rect(x, y, w, h))>>
    ELSE LET mid == Len(wins) \div 2
             fst == SubSeq(wins, 1, mid)
             snd == SubSeq(wins, mid + 1, Len(wins))
         IN  IF vertical
             THEN split_area(fst, x, y, w \div 2, h, FALSE) \o split_area(snd, x + w \div 2, y, w - w \div 2, h, FALSE)
             ELSE split_area(fst, x, y, w, h \div 2, TRUE) \o split_area(snd, x, y + h \div 2, w, h - h \div 2, TRUE)

BSPCalls(wins, sg) == split_area(wins, sg.x, sg.y, sg.width, sg.height, TRUE)

BSPApply(wins, sg, st) == ConfigureAll(st, BSPCalls(wins, sg))

GridCalls(wins, sg) ==
    LET n == Len(wins)
        c0 == ISqrt(n)
        cols == IF c0 * c0 < n THEN c0 + 1 ELSE c0
        rows == (n + cols - 1) \div cols
        cell_w == Max(1, sg.width \div cols)
        cell_h == Max(1, sg.height \div rows)
    IN  [i \in 1 .. n |-> Call(wins[i], Rect(sg.x + ((i - 1) % cols) * cell_w, sg.y + ((i - 1) \div cols) * cell_h, cell_w, cell_h))]

GridApply(wins, sg, st) ==
    IF wins = <<>> THEN st ELSE ConfigureAll(st, GridCalls(wins, sg))

TabbedApply(wins, sg, st, tab) ==
    IF wins = <<>> THEN st
    ELSE ShowOnly(wins, 1, tab, Rect(sg.x, sg.y + TAB_BAR, sg.width, sg.height - TAB_BAR), st)

StackingApply(wins, sg, st, cur) ==
    IF wins = <<>> THEN st
    ELSE ShowOnly(wins, 1, cur, Rect(sg.x, sg.y, sg.width, sg.height), st)

\* LayoutManager.apply: the layout at index idx of
\* [Monocle, Fullscreen, Floating, BSP, Grid, Tabbed, Stacking].
LayoutManagerApply(idx, wins, sg, st, tab, cur) ==
    IF wins = <<>> THEN st
    ELSE CASE idx = 0 -> MonocleApply(wins, sg, st)
           [] idx = 1 -> FullscreenApply(wins, sg, st)
           [] idx = 2 -> FloatingApply(wins, sg, st)
           [] idx = 3 -> BSPApply(wins, sg, st)
           [] idx = 4 -> GridApply(wins, sg, st)
           [] idx = 5 -> TabbedApply(wins, sg, st, tab)
           [] OTHER -> StackingApply(wins, sg, st, cur)

\* --------------------------------------- tiling-stack (src/layouts/tiling.py)
\* TilingLayout.apply: the screen is the fixed 800 x 600 of the source.
TilingCalls(wins) ==
    LET total == Len(wins)
        height_per == TILE_H \div total
    IN  [i \in 1 .. total |-> Call(wins[i], Rect(0, (i - 1) * height_per, TILE_W, height_per))]

\* ------------------------------------------------------------ initial state
\* A window the server has created and nobody has configured or mapped yet.
NewGeom == Rect(10, 10, 100, 80)

\* The history record: the operation, its window argument, a result or the
\* focus it found, a list position, a list length, a workspace index.
NoOp == [op |-> "init", win |-> None, ret |-> None, idx |-> 0, n |-> 0, ws |-> 0]

Op(name, w, r, i, k) == [op |-> name, win |-> w, ret |-> r, idx |-> i, n |-> k, ws |-> 0]

OpWs(name, w, r, i, k, t) == [op |-> name, win |-> w, ret |-> r, idx |-> i, n |-> k, ws |-> t]

\* Workspace(name): no windows, no autostart commands, no focus
Workspace(name) == [name |-> name, windows |-> <<>>, autostart |-> <<>>, focus |-> None]

\* The names WorkspaceManager gives its workspaces when none are configured.
\* A name is its sequence of character codes: "1" is <<49>>.
DefaultNames == [i \in 1 .. 9 |-> <<48 + i>>]

\* A dictionary entry that is absent (.get() gives None): no window has a
\* rectangle of width 0.
NoRect == Rect(0, 0, 0, 0)

InitReg ==
    /\ managed = <<>>
    /\ floating = {}
    /\ focus = None
    /\ client_list = <<>>
    /\ raised = FALSE
    /\ cached_geom = [w \in AllWin |-> NoRect]

InitWs ==
    /\ workspaces = [i \in 1 .. NumWs |-> Workspace(DefaultNames[i])]
    /\ monitors_active = [m \in 0 .. (NumMon - 1) |-> 0]
    /\ sticky_windows = <<>>

InitX ==
    /\ screen = Rect(0, 0, ScreenW, ScreenH)
    /\ xgeom = [w \in AllWin |-> NewGeom]
    /\ xmapped = [w \in AllWin |-> FALSE]

InitLm ==
    /\ lm_current = 0
    /\ positions = <<>>
    /\ current_tab = 0
    /\ stack_current = 0

\* The commands an autostart list may hold.
AutoCmds == {"a", "b"}

\* (monitor, workspace index, command): what launch_count counts
AutoKeys == (0 .. (NumMon - 1)) \X (0 .. (NumWs - 1)) \X AutoCmds

\* FloatingManager._drag when no drag is in progress
NoDrag == [win |-> None, mode |-> "idle", sx |-> 0, sy |-> 0, ox |-> 0, oy |-> 0, ow |-> 0, oh |-> 0]

InitFm ==
    /\ floating_windows = {}
    /\ fm_positions = [w \in AllWin |-> NoRect]
    /\ orig_geom = [w \in AllWin |-> NoRect]
    /\ fm_drag = NoDrag
    /\ pre_float = [w \in AllWin |-> NoRect]

\* b"\0".join(n.encode("utf-8") for n in names), the value set_desktop_names
\* writes: the names' bytes with one NUL between two names
RECURSIVE join_names(_)
join_names(names) ==
    IF names = <<>> THEN <<>>
    ELSE IF Len(names) = 1 THEN names[1]
    ELSE names[1] \o <<NUL>> \o join_names(Tail(names))

\* the list of names a reader finds in a _NET_DESKTOP_NAMES value: the byte
\* string cut at every NUL
RECURSIVE split_names(_)
split_names(raw) ==
    IF ~Contains(raw, NUL) THEN <<raw>>
    ELSE LET i == IndexOf(raw, NUL)
         IN  <<SubSeq(raw, 1, i - 1)>> \o split_names(SubSeq(raw, i + 1, Len(raw)))

\* _update_ewmh_all publishing the last monitor's workspace as the current one
update_ewmh_all_last_monitor(wss, act) ==
    [n |-> Len(wss), names |-> join_names([i \in 1 .. Len(wss) |-> wss[i].name]), cur |-> act[NumMon - 1]]

\* WorkspaceManager._update_ewmh_all: the three root properties it writes
update_ewmh_all(wss, act) ==
    [n |-> Len(wss), names |-> join_names([i \in 1 .. Len(wss) |-> wss[i].name]), cur |-> act[0]]

\* The root properties after WorkspaceManager.__init__ ran _update_ewmh_all.
InitDesk ==
    /\ net_number_of_desktops = update_ewmh_all(workspaces, monitors_active).n
    /\ net_desktop_names = update_ewmh_all(workspaces, monitors_active).names
    /\ net_current_desktop = update_ewmh_all(workspaces, monitors_active).cur

\* No workspace has autostart commands, so the constructor launched nothing.
InitAuto ==
    /\ autostart_run = {}
    /\ launch_count = [k \in AutoKeys |-> 0]

\* MultiMonitorManager.detect_monitors on n outputs side by side that share the
\* X screen evenly
SideBySide(n) == [i \in 1 .. n |-> Rect((i - 1) * (ScreenW \div n), 0, ScreenW \div n, ScreenH)]

\* No client has set a state, nothing was focused yet, no message is in flight.
InitEwmh ==
    /\ monitors = SideBySide(NumMon)
    /\ net_wm_state = [w \in AllWin |-> <<>>]
    /\ net_active_window = None
    /\ xevents = <<>>

\* Both entry points are about to read their first event.
InitLoop ==
    /\ running = TRUE
    /\ main_pc = "loop"
    /\ main_events = 0
    /\ legacy_pc = "loop"
    /\ legacy_events = 0

\* No window has been destroyed yet.
InitSrv == xgone = {}

\* WindowManager._drag_state when no drag is in progress
NoDragState == [mw |-> None, mode |-> "idle", start_pointer |-> <<0, 0>>, start_geom |-> NoRect]

InitDrag == drag_state = NoDragState

\* StatusBar.__init__: the state dict as written there, the thread about to
\* run its first pass, the event loop outside the bar's hooks, nothing
\* waiting on the connection.
InitBar ==
    /\ bar_state = [clock |-> 0, workspace |-> "1"]
    /\ bar_thread_pc = "state"
    /\ bar_loop_pc = "idle"
    /\ bar_reqs = <<>>

InitExt == InitFm /\ InitDesk /\ InitAuto /\ InitEwmh /\ InitLoop /\ InitSrv /\ InitDrag /\ InitBar

Init ==
    /\ InitReg /\ InitWs /\ InitX /\ InitLm /\ InitExt
    /\ lay_wins = <<>>
    /\ lay_out = <<>>
    /\ last = NoOp

\* ------------------------------------- the stateless layouts as functions
\* The inputs of one application: a window list 1..n and a rectangle.
GeomRects == {Rect(x, y, w, h) : x \in 0 .. 1, y \in 0 .. 1, w \in 1 .. MaxDim, h \in 1 .. MaxDim}

InitGeom ==
    /\ InitReg /\ InitWs /\ InitLm /\ InitExt
    /\ screen \in GeomRects
    /\ lay_wins \in {Iota(n) : n \in 0 .. MaxTileN}
    /\ xgeom = [w \in Range(lay_wins) |-> NewGeom]
    /\ xmapped = [w \in Range(lay_wins) |-> FALSE]
    /\ lay_out = <<>>
    /\ last = NoOp

\* TilingLayout.apply(windows) of src/layouts/tiling.py
TilingApply ==
    /\ last.op = "init"
    /\ lay_out' = (IF lay_wins = <<>> THEN <<>> ELSE TilingCalls(lay_wins))
    /\ xgeom' = (IF lay_wins = <<>> THEN xgeom
                 ELSE [w \in DOMAIN xgeom |-> IF Contains(lay_wins, w) THEN TilingCalls(lay_wins)[IndexOf(lay_wins, w)].rect ELSE xgeom[w]])
    /\ last' = Op("tiling", None, None, 0, Len(lay_wins))
    /\ UNCHANGED <<regVars, wsVars, lmVars, screen, xmapped, lay_wins, extVars>>

\* BSP.apply(windows, screen_geom) of src/mywm1.0/core/layouts.py
BspApply ==
    /\ last.op = "init"
    /\ lay_out' = BSPCalls(lay_wins, screen)
    /\ LET st == BSPApply(lay_wins, screen, LState(xgeom, xmapped, positions))
       IN  xgeom' = st.geom /\ xmapped' = st.mapped
    /\ last' = Op("bsp", None, None, 0, Len(lay_wins))
    /\ UNCHANGED <<regVars, wsVars, lmVars, screen, lay_wins, extVars>>

NextGeom == TilingApply \/ BspApply

SpecGeom == InitGeom /\ [][NextGeom]_vars

\* the unit cells a rectangle covers
Cells(r) == {<<i, j>> : i \in r.x .. (r.x + r.width - 1), j \in r.y .. (r.y + r.height - 1)}

RECURSIVE SumHeights(_)
SumHeights(calls) == IF calls = <<>> THEN 0 ELSE Head(calls).rect.height + SumHeights(Tail(calls))

\* C8: tiling-stack on N >= 1 windows yields N rectangles whose heights sum
\* exactly to the rectangle's height and whose widths all equal its width.
C8_TilingHeightsSumToH ==
    (last.op = "tiling" /\ Len(lay_wins) >= 1) =>
        /\ Len(lay_out) = Len(lay_wins)
        /\ SumHeights(lay_out) = TILE_H
        /\ \A i \in DOMAIN lay_out : lay_out[i].rect.width = TILE_W

\* C9: bsp on N >= 1 windows against R configures exactly N leaves, one per
\* window, pairwise non-overlapping, whose union is exactly R.
C9_BspTilesRect ==
    (last.op = "bsp" /\ Len(lay_wins) >= 1) =>
        /\ Len(lay_out) = Len(lay_wins)
        /\ \A i \in DOMAIN lay_out : lay_out[i].win = lay_wins[i]
        /\ \A i, j \in DOMAIN lay_out : i # j => Cells(lay_out[i].rect) \cap Cells(lay_out[j].rect) = {}
        /\ UNION {Cells(lay_out[i].rect) : i \in DOMAIN lay_out} = Cells(screen)

\* C9 witness: three windows on an odd-sized rectangle, split on both axes.
C9_Witness ==
    /\ last.op = "bsp"
    /\ Len(lay_wins) = 3
    /\ screen.width = 5 /\ screen.height = 3
    /\ lay_out[1].rect.width = 2
    /\ lay_out[2].rect.width = 3 /\ lay_out[2].rect.height = 1
    /\ lay_out[3].rect.height = 2

\* ------------------------------------------ LayoutManager.apply as a function
\* Remembered floating rectangles: x and width on both sides of the snap
\* thresholds of the left and right edge, y and height of the top and bottom.
FloatXs == {-25, 5, 19, 20, 95, 130}
FloatWs == {MIN_W, ScreenW - 10}
FloatYHs == {<<5, ScreenH - 10>>, <<60, MIN_H>>}
FloatRects == {Rect(x, yh[1], w, yh[2]) : x \in FloatXs, w \in FloatWs, yh \in FloatYHs}

\* the functions from a subset of the windows S to the set T
PartialFns(S, T) == UNION {[D -> T] : D \in SUBSET S}

InitLay ==
    /\ InitReg /\ InitWs /\ InitExt
    /\ screen = Rect(0, 0, ScreenW, ScreenH)
    /\ lm_current \in 0 .. (NUM_LAYOUTS - 1)
    /\ lay_wins \in {Iota(n) : n \in 0 .. MaxLayN}
    /\ xgeom = [w \in Range(lay_wins) |-> NewGeom]
    /\ xmapped = [w \in Range(lay_wins) |-> FALSE]
    /\ positions \in (IF lm_current = 2 THEN PartialFns(Range(lay_wins), FloatRects) ELSE {<<>>})
    /\ current_tab \in (IF lm_current = 5 THEN 0 .. (MaxLayN - 1) ELSE {0})
    /\ stack_current \in (IF lm_current = 6 THEN 0 .. (MaxLayN - 1) ELSE {0})
    /\ lay_out = <<>>
    /\ last = NoOp

\* LayoutManager.apply(windows, screen_geom) on the window list lay_wins
LayApply ==
    /\ last.n < 2
    /\ LET st == LayoutManagerApply(lm_current, lay_wins, screen, LState(xgeom, xmapped, positions), current_tab, stack_current)
       IN  xgeom' = st.geom /\ xmapped' = st.mapped /\ positions' = st.pos
    /\ last' = Op("apply", None, None, lm_current, last.n + 1)
    /\ UNCHANGED <<regVars, wsVars, screen, lm_current, current_tab, stack_current, layVars, extVars>>

NextLay == LayApply

SpecLayout == InitLay /\ [][NextLay]_vars

\* C10: after a layout has been applied, applying the same layout again to the
\* same windows and rectangle leaves every rectangle and every map state as is.
C10_ApplyIdempotent ==
    last.op = "apply" =>
        LET st == LayoutManagerApply(lm_current, lay_wins, screen, LState(xgeom, xmapped, positions), current_tab, stack_current)
        IN  st.geom = xgeom /\ st.mapped = xmapped

\* C10 witness: the floating layout applied twice to a window whose remembered
\* rectangle was snapped to the right and to the bottom edge.
C10_Witness ==
    /\ last.op = "apply" /\ last.n = 2
    /\ lm_current = 2
    /\ Len(lay_wins) = MaxLayN
    /\ 1 \in DOMAIN positions
    /\ positions[1] = Rect(ScreenW - MIN_W, ScreenH - MIN_H, MIN_W, MIN_H)
    /\ xgeom[1] = positions[1] /\ xmapped[1]

\* ------------------------------------- the window registry (managers/window.py)
\* EWMHManager.update_client_list publishing only clients[1:].
update_client_list_tail(clients) == IF clients = <<>> THEN <<>> ELSE Tail(clients)

\* EWMHManager.update_client_list: the ids written to _NET_CLIENT_LIST
update_client_list(clients) == clients

\* the non-floating managed windows, in order (xwins of apply_layouts)
Tiled(m, f) == SelectSeq(m, LAMBDA w : w \notin f)

\* WindowManager.apply_layouts: the X state after the current layout has been
\* applied to the non-floating managed windows against the root geometry.
apply_layouts(m, f) ==
    LayoutManagerApply(lm_current, Tiled(m, f), screen, LState(xgeom, xmapped, positions), current_tab, stack_current)

\* ManagedWindow.update_geometry_from_x on window w: get_geometry raises
\* BadWindow for a destroyed window and the method returns False
update_geometry_from_x(w) == w \notin xgone

\* the cache ManagedWindow.update_geometry_from_x leaves for window w when
\* the server holds the rectangles geom
cached_after(cache, geom, w) == IF update_geometry_from_x(w) THEN [cache EXCEPT ![w] = geom[w]] ELSE cache

\* the loop of apply_layouts over the managed windows m, each refreshing its
\* cache; a window that is not managed has no ManagedWindow and no cache
refresh_caches(cache, geom, m) ==
    [w \in DOMAIN cache |-> IF Contains(m, w) THEN cached_after(cache, geom, w)[w] ELSE NoRect]

\* the assignment of an apply_layouts result, for the managed windows m, to
\* the X state and to the caches
SetX(st, m) ==
    /\ xgeom' = st.geom /\ xmapped' = st.mapped /\ positions' = st.pos
    /\ cached_geom' = refresh_caches(cached_geom, st.geom, m)

\* WindowManager.manage without the search for an already-managed id.
ManageNoLookup(w, fl) ==
    /\ Len(managed) <= MaxWin
    /\ managed' = Append(managed, w)
    /\ floating' = (IF fl THEN floating \cup {w} ELSE floating \ {w})
    /\ client_list' = update_client_list(managed')
    /\ SetX(apply_layouts(managed', floating'), managed')
    /\ last' = Op("manage", w, w, 0, Len(managed))
    /\ UNCHANGED <<focus, raised, wsVars, screen, lm_current, current_tab, stack_current, layVars, extVars>>

\* WindowManager.manage(xwin, rules): fl is bool(rules.get("float"))
Manage(w, fl) ==
    IF Contains(managed, w)
    THEN /\ last' = Op("manage", w, w, IndexOf(managed, w), Len(managed))
         /\ UNCHANGED <<regVars, wsVars, xVars, lmVars, layVars, extVars>>
    ELSE /\ managed' = Append(managed, w)
         /\ floating' = (IF fl THEN floating \cup {w} ELSE floating)
         /\ client_list' = update_client_list(managed')
         /\ SetX(apply_layouts(managed', floating'), managed')
         /\ last' = Op("manage", w, w, 0, Len(managed))
         /\ UNCHANGED <<focus, raised, wsVars, screen, lm_current, current_tab, stack_current, layVars, extVars>>

\* WindowManager.unmanage(mw): a ManagedWindow not in the list is a no-op.
Unmanage(w) ==
    /\ Contains(managed, w)
    /\ managed' = Remove(managed, w)
    /\ floating' = floating \ {w}
    /\ client_list' = update_client_list(managed')
    /\ SetX(apply_layouts(managed', floating'), managed')
    /\ focus' = (IF focus = w THEN (IF managed' # <<>> THEN managed'[1] ELSE None) ELSE focus)
    /\ last' = Op("unmanage", w, focus, IndexOf(managed, w), Len(managed))
    /\ UNCHANGED <<raised, wsVars, screen, lm_current, current_tab, stack_current, layVars, extVars>>

\* WindowManager.focus_window(mw): refused for a window that is not managed
FocusWindow(w) ==
    /\ focus' = (IF Contains(managed, w) THEN w ELSE focus)
    /\ last' = Op("focus_window", w, focus, IndexOf(managed, w), Len(managed))
    /\ UNCHANGED <<managed, cached_geom, floating, client_list, raised, wsVars, xVars, lmVars, layVars, extVars>>

\* focus_next stepping to idx + 1 without the modulo: managed[len] raises.
focus_next_nowrap(m, f) ==
    IF m = <<>> THEN [focus |-> f, raised |-> FALSE]
    ELSE IF f = None THEN [focus |-> m[1], raised |-> FALSE]
    ELSE IF ~Contains(m, f) THEN [focus |-> f, raised |-> TRUE]
    ELSE IF IndexOf(m, f) = Len(m) THEN [focus |-> f, raised |-> TRUE]
    ELSE [focus |-> m[IndexOf(m, f) + 1], raised |-> FALSE]

\* WindowManager.focus_next on managed list m and focus f: the new focus, and
\* whether managed.index(focus) raised ValueError (nothing catches it).
focus_next(m, f) ==
    IF m = <<>> THEN [focus |-> f, raised |-> FALSE]
    ELSE IF f = None THEN [focus |-> m[1], raised |-> FALSE]
    ELSE IF ~Contains(m, f) THEN [focus |-> f, raised |-> TRUE]
    ELSE [focus |-> m[(IndexOf(m, f) % Len(m)) + 1], raised |-> FALSE]

\* WindowManager.focus_prev; Python's (idx - 1) % n is never negative.
focus_prev(m, f) ==
    IF m = <<>> THEN [focus |-> f, raised |-> FALSE]
    ELSE IF f = None THEN [focus |-> m[Len(m)], raised |-> FALSE]
    ELSE IF ~Contains(m, f) THEN [focus |-> f, raised |-> TRUE]
    ELSE [focus |-> m[((IndexOf(m, f) - 2 + Len(m)) % Len(m)) + 1], raised |-> FALSE]

FocusNext ==
    /\ focus' = focus_next(managed, focus).focus
    /\ raised' = (raised \/ focus_next(managed, focus).raised)
    /\ last' = Op("focus_next", None, focus, IndexOf(managed, focus), Len(managed))
    /\ UNCHANGED <<managed, cached_geom, floating, client_list, wsVars, xVars, lmVars, layVars, extVars>>

FocusPrev ==
    /\ focus' = focus_prev(managed, focus).focus
    /\ raised' = (raised \/ focus_prev(managed, focus).raised)
    /\ last' = Op("focus_prev", None, focus, IndexOf(managed, focus), Len(managed))
    /\ UNCHANGED <<managed, cached_geom, floating, client_list, wsVars, xVars, lmVars, layVars, extVars>>

\* WindowManager.set_floating(mw, floating) on a managed window
SetFloating(w, fl) ==
    /\ Contains(managed, w)
    /\ floating' = (IF fl THEN floating \cup {w} ELSE floating \ {w})
    /\ SetX(apply_layouts(managed, floating'), managed)
    /\ last' = Op("set_floating", w, focus, IndexOf(managed, w), Len(managed))
    /\ UNCHANGED <<managed, focus, client_list, raised, wsVars, screen, lm_current, current_tab, stack_current, layVars, extVars>>

NextRegistry ==
    \/ \E w \in Windows, fl \in BOOLEAN : Manage(w, fl)
    \/ \E w \in Windows : Unmanage(w)
    \/ \E w \in Windows : FocusWindow(w)
    \/ FocusNext
    \/ FocusPrev
    \/ \E w \in Windows, fl \in BOOLEAN : SetFloating(w, fl)

SpecRegistry == Init /\ [][NextRegistry]_vars

\* C1: after every manage / unmanage call the set of managed handles equals
\* the set of handles of the most recently published client list.
C1_ClientListIsManaged ==
    Range(client_list) = Range(managed)

\* C1 witness: manage has published three windows and unmanage has then
\* published the list without its first one.
C1_Witness ==
    /\ last.op = "unmanage" /\ last.n = 3 /\ last.idx = 1
    /\ Len(managed) = 2
    /\ client_list = managed

\* C3: manage of a handle already in the registry returns the existing entry
\* and leaves the managed list and the floating flags as they were; no handle
\* is ever in the managed list twice.
C3_ManageIdempotent ==
    /\ [](NoDup(managed))
    /\ [][(last'.op = "manage" /\ Contains(managed, last'.win)) =>
            (managed' = managed /\ floating' = floating /\ last'.ret = managed[last'.idx])]_vars

\* C3 witness: manage was called for the second of three managed windows, a
\* floating one, and the list still has three distinct entries.
C3_Witness ==
    /\ last.op = "manage" /\ last.idx = 2 /\ last.n = 3
    /\ Len(managed) = 3 /\ managed[2] = last.win
    /\ last.win \in floating

\* n successive focus_next calls from focus f on managed list m
RECURSIVE focus_next_times(_, _, _)
focus_next_times(m, f, n) ==
    IF n = 0 THEN f ELSE focus_next_times(m, focus_next(m, f).focus, n - 1)

\* C4: focus_next and focus_prev never fail in a reachable state; with no
\* window focus stays absent; with N >= 1 windows and a focused window, N
\* focus_next calls come back to it and focus_prev undoes focus_next.
C4_FocusCycleTotal ==
    /\ ~raised
    /\ ~focus_next(managed, focus).raised
    /\ ~focus_prev(managed, focus).raised
    /\ managed = <<>> => (focus = None /\ focus_next(managed, focus).focus = None /\ focus_prev(managed, focus).focus = None)
    /\ (managed # <<>> /\ focus # None) =>
           /\ focus_next_times(managed, focus, Len(managed)) = focus
           /\ focus_prev(managed, focus_next(managed, focus).focus).focus = focus

\* C4 witness: focus_next has wrapped from the last of three windows to the
\* first.
C4_Witness ==
    /\ last.op = "focus_next" /\ last.n = 3 /\ last.idx = 3
    /\ Len(managed) = 3
    /\ last.ret = managed[3]
    /\ focus = managed[1]
    /\ ~raised

\* --------------------------------- workspaces (managers/workspaces.py)
\* Workspace indices are 0-based as in the source; workspaces[i + 1] is
\* workspace i.
RECURSIVE Dedupe(_)
Dedupe(s) ==
    IF s = <<>> THEN <<>>
    ELSE LET front == Dedupe(SubSeq(s, 1, Len(s) - 1))
             e == s[Len(s)]
         IN  IF Contains(front, e) THEN front ELSE Append(front, e)

RECURSIVE Flatten(_)
Flatten(wss) == IF wss = <<>> THEN <<>> ELSE Head(wss).windows \o Flatten(Tail(wss))

\* WorkspaceManager._all_managed_windows: workspace windows, then sticky ones
all_managed_windows(wss, sticky) == Dedupe(Flatten(wss) \o sticky)

\* WorkspaceManager._visible_windows_for_monitor
visible_windows_for_monitor(wss, act, sticky, mon) == Dedupe(wss[act[mon] + 1].windows \o sticky)

\* Workspace.add_window
ws_add_window(ws, w) ==
    IF Contains(ws.windows, w) THEN ws ELSE [ws EXCEPT !.windows = Append(ws.windows, w), !.focus = w]

\* Workspace.remove_window that leaves the focus field alone.
ws_remove_window_keep_focus(ws, w) ==
    IF ~Contains(ws.windows, w) THEN ws ELSE [ws EXCEPT !.windows = Remove(ws.windows, w)]

\* Workspace.remove_window
ws_remove_window(ws, w) ==
    IF ~Contains(ws.windows, w) THEN ws
    ELSE LET rest == Remove(ws.windows, w)
         IN  [ws EXCEPT !.windows = rest,
                        !.focus = IF ws.focus = w THEN (IF rest # <<>> THEN rest[1] ELSE None) ELSE ws.focus]

\* WorkspaceManager._apply_visibility_for_monitor (raise_windows = True): the
\* map state after the loop over _all_managed_windows.
apply_visibility_for_monitor(wss, act, sticky, mon, mapped) ==
    LET visible == Range(visible_windows_for_monitor(wss, act, sticky, mon))
        all == Range(all_managed_windows(wss, sticky))
    IN  [w \in DOMAIN mapped |-> IF w \in all THEN w \in visible ELSE mapped[w]]

\* WorkspaceManager.apply_visibility_all_monitors: monitors mon .. NumMon - 1
RECURSIVE apply_visibility_from(_, _, _, _, _)
apply_visibility_from(wss, act, sticky, mon, mapped) ==
    IF mon >= NumMon THEN mapped
    ELSE apply_visibility_from(wss, act, sticky, mon + 1, apply_visibility_for_monitor(wss, act, sticky, mon, mapped))

apply_visibility_all_monitors(wss, act, sticky, mapped) == apply_visibility_from(wss, act, sticky, 0, mapped)

\* WorkspaceManager._ewmh_update_client_list: what it hands to EWMH
ewmh_update_client_list(wss, sticky) == update_client_list(all_managed_windows(wss, sticky))

\* the first workspace (0-based) holding w, or -1
workspace_index_of(wss, w) ==
    IF \E i \in DOMAIN wss : Contains(wss[i].windows, w)
    THEN (CHOOSE i \in DOMAIN wss : Contains(wss[i].windows, w) /\ \A j \in 1 .. (i - 1) : ~Contains(wss[j].windows, w)) - 1
    ELSE -1

SetDesk(d) ==
    /\ net_number_of_desktops' = d.n
    /\ net_desktop_names' = d.names
    /\ net_current_desktop' = d.cur

\* the autostart loop without the look-up of the run-once marker
RECURSIVE run_autostart_unmarked(_, _, _, _, _, _)
run_autostart_unmarked(cmds, mon, idx, name, fail, st) ==
    IF cmds = <<>> THEN st
    ELSE IF Head(cmds) \in fail THEN run_autostart_unmarked(Tail(cmds), mon, idx, name, fail, st)
    ELSE run_autostart_unmarked(Tail(cmds), mon, idx, name, fail,
              [run |-> st.run \cup {<<mon, name, Head(cmds)>>},
               lc |-> [st.lc EXCEPT ![<<mon, idx, Head(cmds)>>] = IF @ < 2 THEN @ + 1 ELSE @]])

\* The loop of _maybe_run_autostart_for_monitor over ws.autostart: a command
\* whose key (monitor, ws.name, command) is marked is skipped; otherwise it is
\* launched and the key marked, unless Popen raises (the commands of fail),
\* which leaves the key unmarked. st is the pair of marks and launch counts.
RECURSIVE run_autostart(_, _, _, _, _, _)
run_autostart(cmds, mon, idx, name, fail, st) ==
    IF cmds = <<>> THEN st
    ELSE IF <<mon, name, Head(cmds)>> \in st.run \/ Head(cmds) \in fail
         THEN run_autostart(Tail(cmds), mon, idx, name, fail, st)
    ELSE run_autostart(Tail(cmds), mon, idx, name, fail,
              [run |-> st.run \cup {<<mon, name, Head(cmds)>>},
               lc |-> [st.lc EXCEPT ![<<mon, idx, Head(cmds)>>] = IF @ < 2 THEN @ + 1 ELSE @]])

\* WorkspaceManager._maybe_run_autostart_for_monitor(monitor_index)
maybe_run_autostart_for_monitor(wss, act, mon, fail, st) ==
    run_autostart(wss[act[mon] + 1].autostart, mon, act[mon], wss[act[mon] + 1].name, fail, st)

AutoCur == [run |-> autostart_run, lc |-> launch_count]

\* how many entries of ws.autostart already have their key marked for mon
marked_on_entry(ws, mon) ==
    Cardinality({i \in DOMAIN ws.autostart : <<mon, ws.name, ws.autostart[i]>> \in autostart_run})

SetAuto(st) ==
    /\ autostart_run' = st.run
    /\ launch_count' = st.lc

\* Workspace.add_window called on workspace i
WsAddWindow(i, w) ==
    /\ i + 1 \in DOMAIN workspaces
    /\ workspaces' = [workspaces EXCEPT ![i + 1] = ws_add_window(@, w)]
    /\ last' = OpWs("ws_add", w, workspaces[i + 1].focus, IndexOf(workspaces[i + 1].windows, w), Len(workspaces[i + 1].windows), i)
    /\ UNCHANGED <<regVars, monitors_active, sticky_windows, xVars, lmVars, layVars, extVars>>

\* Workspace.remove_window called on workspace i
WsRemoveWindow(i, w) ==
    /\ i + 1 \in DOMAIN workspaces
    /\ Contains(workspaces[i + 1].windows, w)
    /\ workspaces' = [workspaces EXCEPT ![i + 1] = ws_remove_window(@, w)]
    /\ last' = OpWs("ws_remove", w, workspaces[i + 1].focus, IndexOf(workspaces[i + 1].windows, w), Len(workspaces[i + 1].windows), i)
    /\ UNCHANGED <<regVars, monitors_active, sticky_windows, xVars, lmVars, layVars, extVars>>

\* WorkspaceManager.add_workspace
AddWorkspace(name) ==
    /\ Len(workspaces) < NumWs
    /\ workspaces' = Append(workspaces, Workspace(name))
    /\ SetDesk(update_ewmh_all(workspaces', monitors_active))
    /\ last' = OpWs("add_workspace", None, None, 0, Len(workspaces), Len(workspaces))
    /\ UNCHANGED <<regVars, monitors_active, sticky_windows, xVars, lmVars, layVars, fmVars, autoVars, ewmhVars, loopVars, srvVars, dragVars, barVars>>

\* the reassignment loop of remove_workspace adding nothing
AddNone(ws, wins) == ws

\* the windows of the popped workspace added to workspace dest, in order
RECURSIVE AddAll(_, _)
AddAll(ws, wins) == IF wins = <<>> THEN ws ELSE AddAll(ws_add_window(ws, Head(wins)), Tail(wins))

\* remove_workspace leaving the per-monitor indexes as they were
shift_active_none(act, index) == act

\* remove_workspace, the loop over monitors_active: every index at or after
\* the removed one moves down by one, never below 0
shift_active(act, index) ==
    [m \in DOMAIN act |-> IF act[m] >= index THEN Max(0, act[m] - 1) ELSE act[m]]

\* WorkspaceManager.remove_workspace(index) for a call that is not refused;
\* the history keeps the windows of the removed workspace
RemoveWorkspace(index) ==
    /\ index >= 0 /\ index < Len(workspaces)
    /\ Len(workspaces) > 1
    /\ LET ws == workspaces[index + 1]
           popped == SubSeq(workspaces, 1, index) \o SubSeq(workspaces, index + 2, Len(workspaces))
           dest == Max(0, index - 1)
       IN  workspaces' = [popped EXCEPT ![dest + 1] = AddAll(@, ws.windows)]
    /\ monitors_active' = shift_active(monitors_active, index)
    /\ SetDesk(update_ewmh_all(workspaces', monitors_active'))
    /\ last' = OpWs("remove_workspace", None, workspaces[index + 1].windows, 0, Len(workspaces), index)
    /\ UNCHANGED <<regVars, sticky_windows, xVars, lmVars, layVars, fmVars, autoVars, ewmhVars, loopVars, srvVars, dragVars, barVars>>

\* WorkspaceManager.switch_to(workspace_index, monitor_index) as a function of
\* the workspace state: the active map, the map state and the client list
\* (the autostart loop and _update_ewmh_all are added by the actions).
switch_to(wss, act, sticky, mapped, cl, wi, mon) ==
    IF mon < 0 \/ mon >= NumMon THEN [act |-> act, mapped |-> mapped, cl |-> cl]
    ELSE IF wi < 0 \/ wi >= Len(wss) THEN [act |-> act, mapped |-> mapped, cl |-> cl]
    ELSE IF act[mon] = wi THEN [act |-> act, mapped |-> mapped, cl |-> cl]
    ELSE LET act1 == [act EXCEPT ![mon] = wi]
         IN  [act |-> act1,
              mapped |-> apply_visibility_for_monitor(wss, act1, sticky, mon, mapped),
              cl |-> ewmh_update_client_list(wss, sticky)]

SwitchTo(wi, mon) ==
    /\ mon \in 0 .. (NumMon - 1)
    /\ wi >= 0 /\ wi < Len(workspaces)
    /\ monitors_active[mon] # wi
    /\ \E r \in {switch_to(workspaces, monitors_active, sticky_windows, xmapped, client_list, wi, mon)} :
           /\ monitors_active' = r.act /\ xmapped' = r.mapped /\ client_list' = r.cl
           /\ \E fail \in SUBSET Range(workspaces[wi + 1].autostart) :
                  SetAuto(maybe_run_autostart_for_monitor(workspaces, r.act, mon, fail, AutoCur))
           /\ SetDesk(update_ewmh_all(workspaces, r.act))
    /\ last' = OpWs("switch_to", None, marked_on_entry(workspaces[wi + 1], mon), mon, Len(workspaces), wi)
    /\ UNCHANGED <<managed, cached_geom, floating, focus, raised, workspaces, sticky_windows, screen, xgeom, lmVars, layVars, fmVars, ewmhVars, loopVars, srvVars, dragVars, barVars>>

\* move_window_to attaching w to the target without detaching it
move_window_no_detach(wss, w, target) == [wss EXCEPT ![target + 1] = ws_add_window(@, w)]

\* the workspaces after move_window_to's detach-and-attach of w
move_window(wss, w, target) ==
    LET src == workspace_index_of(wss, w)
        wss1 == IF src = -1 THEN wss ELSE [wss EXCEPT ![src + 1] = ws_remove_window(@, w)]
    IN  [wss1 EXCEPT ![target + 1] = ws_add_window(@, w)]

\* WorkspaceManager.move_window_to(win, target_ws_index, follow, monitor_index);
\* each intermediate value is bound once, in the order the code computes it.
MoveWindowTo(w, target, follow, mon) ==
    /\ IF target < 0 \/ target >= Len(workspaces)
       THEN UNCHANGED <<workspaces, monitors_active, xmapped, client_list, deskVars, autoVars>>
       ELSE \E wss2 \in {move_window(workspaces, w, target)} :
            \E cl1 \in {ewmh_update_client_list(wss2, sticky_windows)} :
            \E r \in {IF follow
                      THEN switch_to(wss2, monitors_active, sticky_windows, xmapped, cl1, target, mon)
                      ELSE [act |-> monitors_active,
                            mapped |-> apply_visibility_all_monitors(wss2, monitors_active, sticky_windows, xmapped),
                            cl |-> cl1]} :
                /\ workspaces' = wss2
                /\ monitors_active' = r.act /\ xmapped' = r.mapped /\ client_list' = r.cl
                /\ IF follow /\ monitors_active[mon] # target
                   THEN /\ \E fail \in SUBSET Range(wss2[target + 1].autostart) :
                               SetAuto(maybe_run_autostart_for_monitor(wss2, r.act, mon, fail, AutoCur))
                        /\ SetDesk(update_ewmh_all(wss2, r.act))
                   ELSE UNCHANGED <<deskVars, autoVars>>
    /\ last' = OpWs("move_window_to", w, workspace_index_of(workspaces, w), target, Len(workspaces), target)
    /\ UNCHANGED <<managed, cached_geom, floating, focus, raised, sticky_windows, screen, xgeom, lmVars, layVars, fmVars, ewmhVars, loopVars, srvVars, dragVars, barVars>>

\* WorkspaceManager.rename_workspace(index, new_name)
RenameWorkspace(index, new_name) ==
    /\ index >= 0 /\ index < Len(workspaces)
    /\ workspaces' = [workspaces EXCEPT ![index + 1].name = new_name]
    /\ SetDesk(update_ewmh_all(workspaces', monitors_active))
    /\ last' = OpWs("rename_workspace", None, None, 0, Len(workspaces), index)
    /\ UNCHANGED <<regVars, monitors_active, sticky_windows, xVars, lmVars, layVars, fmVars, autoVars, ewmhVars, loopVars, srvVars, dragVars, barVars>>

\* WorkspaceManager.next_workspace(monitor_index): switch_to((cur + 1) % len)
next_workspace(mon) == SwitchTo((monitors_active[mon] + 1) % Len(workspaces), mon)

\* WorkspaceManager.prev_workspace(monitor_index): switch_to((cur - 1) % len)
prev_workspace(mon) == SwitchTo((monitors_active[mon] - 1 + Len(workspaces)) % Len(workspaces), mon)

\* WorkspaceManager.set_sticky(win, sticky)
SetSticky(w, st) ==
    /\ sticky_windows' = (IF st THEN (IF Contains(sticky_windows, w) THEN sticky_windows ELSE Append(sticky_windows, w))
                          ELSE Remove(sticky_windows, w))
    /\ xmapped' = apply_visibility_all_monitors(workspaces, monitors_active, sticky_windows', xmapped)
    /\ client_list' = ewmh_update_client_list(workspaces, sticky_windows')
    /\ last' = OpWs("set_sticky", w, None, 0, Len(sticky_windows), 0)
    /\ UNCHANGED <<managed, cached_geom, floating, focus, raised, workspaces, monitors_active, screen, xgeom, lmVars, layVars, extVars>>

NextWorkspace ==
    \/ \E i \in 0 .. (NumWs - 1), w \in WsWindows : WsAddWindow(i, w)
    \/ \E i \in 0 .. (NumWs - 1), w \in WsWindows : WsRemoveWindow(i, w)
    \/ AddWorkspace(DefaultNames[NumWs])
    \/ \E i \in 0 .. (NumWs - 1) : RemoveWorkspace(i)
    \/ \E i \in 0 .. (NumWs - 1), m \in 0 .. (NumMon - 1) : SwitchTo(i, m)
    \/ \E w \in WsWindows, t \in 0 .. (NumWs - 1), fo \in BOOLEAN, m \in 0 .. (NumMon - 1) : MoveWindowTo(w, t, fo, m)
    \/ \E w \in WsWindows, st \in BOOLEAN : SetSticky(w, st)

SpecWorkspace == Init /\ [][NextWorkspace]_vars

\* C6: each workspace's focus is None or one of that workspace's windows.
C6_WorkspaceFocusIsMember ==
    \A i \in DOMAIN workspaces :
        workspaces[i].focus = None \/ Contains(workspaces[i].windows, workspaces[i].focus)

\* C6 witness: the focused window of a workspace holding two windows has been
\* removed and the focus is the window that is left.
C6_Witness ==
    /\ last.op = "ws_remove" /\ last.n = 2 /\ last.ret = last.win
    /\ workspaces[last.ws + 1].windows # <<>>
    /\ workspaces[last.ws + 1].focus = workspaces[last.ws + 1].windows[1]
    /\ workspaces[last.ws + 1].focus # last.win

\* ------------------------------------------ event handlers (mywm1.0/main.py)
\* handle_map_request: manage(xwin) with no rules, then focus_window(mw); the
\* default configuration has no floating rules.
map_request(w) ==
    /\ IF Contains(managed, w)
       THEN UNCHANGED <<managed, cached_geom, floating, client_list, xVars, lmVars>>
       ELSE /\ managed' = Append(managed, w)
            /\ floating' = floating
            /\ client_list' = update_client_list(managed')
            /\ SetX(apply_layouts(managed', floating'), managed')
            /\ UNCHANGED <<screen, lm_current, current_tab, stack_current>>
    /\ focus' = w
    /\ last' = Op("map_request", w, focus, IndexOf(managed, w), Len(managed))
    /\ UNCHANGED <<raised, wsVars, layVars, fmVars, deskVars, autoVars, loopVars, srvVars, dragVars, barVars>>

\* handle_map_request where the messages in flight and the properties the
\* client-message handler writes are not observed
HandleMapRequest(w) == map_request(w) /\ UNCHANGED ewmhVars

\* handle_destroy_notify: find_by_xwin, then unmanage when it is managed
destroy_notify(w) ==
    /\ Contains(managed, w)
    /\ managed' = Remove(managed, w)
    /\ floating' = floating \ {w}
    /\ client_list' = update_client_list(managed')
    /\ SetX(apply_layouts(managed', floating'), managed')
    /\ focus' = (IF focus = w THEN (IF managed' # <<>> THEN managed'[1] ELSE None) ELSE focus)
    /\ last' = Op("destroy_notify", w, focus, IndexOf(managed, w), Len(managed))
    /\ UNCHANGED <<raised, wsVars, screen, lm_current, current_tab, stack_current, layVars, fmVars, deskVars, autoVars, loopVars, srvVars, dragVars, barVars>>

\* handle_destroy_notify, observed as HandleMapRequest is
HandleDestroyNotify(w) == destroy_notify(w) /\ UNCHANGED ewmhVars

\* The window manager as a whole: the X events it handles (which reach the
\* registry through manage and unmanage) and the workspace operations its key
\* bindings call.
Next ==
    \/ \E w \in WsWindows : HandleMapRequest(w)
    \/ \E w \in WsWindows : HandleDestroyNotify(w)
    \/ \E i \in 0 .. (NumWs - 1), m \in 0 .. (NumMon - 1) : SwitchTo(i, m)
    \/ \E w \in WsWindows, t \in 0 .. (NumWs - 1), fo \in BOOLEAN, m \in 0 .. (NumMon - 1) : MoveWindowTo(w, t, fo, m)
    \/ \E w \in WsWindows, st \in BOOLEAN : SetSticky(w, st)

Spec == Init /\ [][Next]_vars

\* C2: after every mutating operation, those of the workspace manager included,
\* the published client list holds exactly the registry's managed windows.
C2_ClientListIsRegistry ==
    last.op # "init" => (\A w \in WsWindows : Contains(client_list, w) <=> Contains(managed, w))

\* the number of workspaces whose window list holds w
InWorkspaces(w) == Cardinality({i \in DOMAIN workspaces : Contains(workspaces[i].windows, w)})

\* C7: every window of the registry is in the window list of exactly one
\* workspace.
C7_ManagedInOneWorkspace ==
    \A w \in Range(managed) : InWorkspaces(w) = 1

\* C5: when the focused window at position i of N > 1 managed windows is
\* unmanaged, focus moves to its previous neighbour (the window before it, or
\* the new first window when it was first); when the only window is
\* unmanaged, focus becomes absent.
C5_FocusPreviousNeighbour ==
    (last.op = "unmanage" /\ last.ret = last.win) =>
        IF last.n > 1 THEN focus = managed[Max(1, last.idx - 1)] ELSE focus = None

\* ------------------------------ FloatingManager (managers/floating.py)
FmWindows == 1 .. MaxFmWin

\* The rectangles a client window has when the floating manager first sees it.
FmRects == {NewGeom, Rect(5, 40, 150, 30), Rect(30, 30, 30, 20)}

\* The rectangles FloatingManager._load_state may find in its state file.
FmSaved == {Rect(20, 20, 60, 50)}

\* The keyboard deltas of move_by/resize_by and the pointer deltas of a drag.
FmDeltas == {<<-200, -200>>, <<-40, 0>>, <<-12, -12>>, <<12, 0>>, <<0, 30>>}

\* Where the pointer is at a button press (ev.root_x, ev.root_y).
PressPoint == <<50, 50>>

\* FloatingManager.snap_threshold with no configured value
snap_threshold == DEFAULT_SNAP

\* FloatingManager._snap(x, y, w, h) against the root rectangle scr: the left
\* and top tests first, then the right and bottom tests, which overwrite them;
\* every test looks at the x and y it was given.
snap(x, y, w, h, scr) ==
    LET th == snap_threshold
        nx1 == IF Abs(x - scr.x) <= th THEN scr.x ELSE x
        ny1 == IF Abs(y - scr.y) <= th THEN scr.y ELSE y
        nx2 == IF scr.width # 0 /\ Abs((x + w) - (scr.x + scr.width)) <= th THEN scr.x + scr.width - w ELSE nx1
        ny2 == IF scr.height # 0 /\ Abs((y + h) - (scr.y + scr.height)) <= th THEN scr.y + scr.height - h ELSE ny1
    IN <<nx2, ny2>>

\* a resize without the floor
resized_unclamped(size, delta) == size + delta

\* max(MIN_SIZE, size + delta): the width or height resize_by and a resize
\* drag configure
resized(size, delta) == Max(MIN_SIZE, size + delta)

\* The floating manager's state and the rectangles it configures.
FmState(g, fl, pos, og) == [geom |-> g, fl |-> fl, pos |-> pos, orig |-> og]

\* FloatingManager.center_window(win)
center_window(st, w, scr) ==
    LET g == st.geom[w]
        nx == scr.x + Max(0, (scr.width - g.width) \div 2)
        ny == scr.y + Max(0, (scr.height - g.height) \div 2)
        r == Rect(nx, ny, g.width, g.height)
    IN [st EXCEPT !.geom[w] = r, !.pos[w] = r]

\* set_floating with the restore of the original rectangle left out
set_floating_no_restore(st, w, enable, center, scr) ==
    IF enable
    THEN LET s1 == [st EXCEPT !.orig[w] = st.geom[w], !.fl = st.fl \cup {w}]
             s2 == IF st.pos[w] # NoRect THEN [s1 EXCEPT !.geom[w] = st.pos[w]]
                   ELSE IF center THEN center_window(s1, w, scr)
                   ELSE s1
         IN [s2 EXCEPT !.pos[w] = s2.geom[w]]
    ELSE LET s1 == [st EXCEPT !.fl = st.fl \ {w}, !.orig[w] = NoRect]
         IN [s1 EXCEPT !.pos[w] = s1.geom[w]]

\* FloatingManager.set_floating(win, enable, center) with save_position left
\* at its default: enabling records the current rectangle in _orig_geom, then
\* restores the saved position, or centres; disabling pops _orig_geom and
\* configures it; both end by saving the rectangle the window has now.
set_floating(st, w, enable, center, scr) ==
    IF enable
    THEN LET s1 == [st EXCEPT !.orig[w] = st.geom[w], !.fl = st.fl \cup {w}]
             s2 == IF st.pos[w] # NoRect THEN [s1 EXCEPT !.geom[w] = st.pos[w]]
                   ELSE IF center THEN center_window(s1, w, scr)
                   ELSE s1
         IN [s2 EXCEPT !.pos[w] = s2.geom[w]]
    ELSE LET og == st.orig[w]
             s1 == [st EXCEPT !.fl = st.fl \ {w}, !.orig[w] = NoRect]
             s2 == IF og # NoRect THEN [s1 EXCEPT !.geom[w] = og] ELSE s1
         IN [s2 EXCEPT !.pos[w] = s2.geom[w]]

\* FloatingManager.toggle_floating(win, center)
toggle_floating(st, w, center, scr) ==
    IF w \in st.fl THEN set_floating(st, w, FALSE, FALSE, scr)
    ELSE set_floating(st, w, TRUE, center, scr)

\* The history record of a floating-manager operation: what it was asked
\* (req) and the configure() keywords it sent (conf), n counting operations.
FmOp(name, w, req, conf) ==
    [op |-> name, win |-> w, ret |-> [req |-> req, conf |-> conf], idx |-> 0, n |-> last.n + 1, ws |-> 0]

FmCur == FmState(xgeom, floating_windows, fm_positions, orig_geom)

FmSet(st) ==
    /\ xgeom' = st.geom
    /\ floating_windows' = st.fl
    /\ fm_positions' = st.pos
    /\ orig_geom' = st.orig

FmFrame == UNCHANGED <<managed, focus, client_list, raised, wsVars, screen, xmapped, lmVars, layVars, deskVars, autoVars, ewmhVars, loopVars, srvVars, dragVars, barVars>>

InitFloat ==
    /\ InitWs /\ InitLm /\ InitDesk /\ InitAuto /\ InitEwmh /\ InitLoop /\ InitSrv /\ InitDrag /\ InitBar
    /\ managed = Iota(MaxFmWin)
    /\ floating = {}
    /\ focus = None
    /\ client_list = Iota(MaxFmWin)
    /\ raised = FALSE
    /\ screen = Rect(0, 0, ScreenW, ScreenH)
    /\ xgeom \in [FmWindows -> FmRects]
    /\ cached_geom = [w \in AllWin |-> IF w \in FmWindows THEN xgeom[w] ELSE NoRect]
    /\ xmapped = [w \in FmWindows |-> TRUE]
    /\ lay_wins = <<>>
    /\ lay_out = <<>>
    /\ floating_windows = {}
    /\ fm_positions \in [FmWindows -> {NoRect} \cup FmSaved]
    /\ orig_geom = [w \in FmWindows |-> NoRect]
    /\ fm_drag = NoDrag
    /\ pre_float = [w \in FmWindows |-> NoRect]
    /\ last = NoOp

\* set_floating(win, enable, center); pre_float remembers the rectangle of a
\* window that leaves tiling and forgets it when an already floating window
\* is enabled again
FmSetFloating(w, enable, center) ==
    /\ last.n < MaxFmOps
    /\ FmSet(set_floating(FmCur, w, enable, center, screen))
    /\ pre_float' = (IF ~enable THEN pre_float
                     ELSE IF w \in floating_windows THEN [pre_float EXCEPT ![w] = NoRect]
                     ELSE [pre_float EXCEPT ![w] = xgeom[w]])
    /\ last' = FmOp(IF enable THEN "set_floating_on" ELSE "set_floating_off", w,
                    [floating |-> w \in floating_windows, geom |-> xgeom[w]], xgeom'[w])
    /\ UNCHANGED fm_drag
    /\ UNCHANGED <<floating, cached_geom>>
    /\ FmFrame

FmToggleFloating(w, center) ==
    /\ last.n < MaxFmOps
    /\ FmSet(toggle_floating(FmCur, w, center, screen))
    /\ pre_float' = (IF w \in floating_windows THEN pre_float ELSE [pre_float EXCEPT ![w] = xgeom[w]])
    /\ last' = FmOp(IF w \in floating_windows THEN "set_floating_off" ELSE "set_floating_on", w,
                    [floating |-> w \in floating_windows, geom |-> xgeom[w]], xgeom'[w])
    /\ UNCHANGED fm_drag
    /\ UNCHANGED <<floating, cached_geom>>
    /\ FmFrame

\* move_by(win, dx, dy) with snap and save at their defaults
MoveBy(w, dx, dy) ==
    /\ last.n < MaxFmOps
    /\ LET g == xgeom[w]
           n == snap(g.x + dx, g.y + dy, g.width, g.height, screen)
           r == Rect(n[1], n[2], g.width, g.height)
       IN /\ xgeom' = [xgeom EXCEPT ![w] = r]
          /\ fm_positions' = [fm_positions EXCEPT ![w] = r]
          /\ last' = FmOp("move", w, Rect(g.x + dx, g.y + dy, g.width, g.height), [x |-> n[1], y |-> n[2]])
    /\ UNCHANGED <<floating_windows, orig_geom, fm_drag, pre_float>>
    /\ UNCHANGED <<floating, cached_geom>>
    /\ FmFrame

\* resize_by(win, dw, dh) with save at its default
ResizeBy(w, dw, dh) ==
    /\ last.n < MaxFmOps
    /\ LET g == xgeom[w]
           neww == resized(g.width, dw)
           newh == resized(g.height, dh)
           r == Rect(g.x, g.y, neww, newh)
       IN /\ xgeom' = [xgeom EXCEPT ![w] = r]
          /\ fm_positions' = [fm_positions EXCEPT ![w] = r]
          /\ last' = FmOp("resize", w, Rect(g.x, g.y, g.width + dw, g.height + dh), [width |-> neww, height |-> newh])
    /\ UNCHANGED <<floating_windows, orig_geom, fm_drag, pre_float>>
    /\ UNCHANGED <<floating, cached_geom>>
    /\ FmFrame

\* The root window (FloatingManager.root), which is no client's window.
RootWin == 99

\* target.get_geometry() for a client window or the root
GeomOf(t) == IF t = RootWin THEN screen ELSE xgeom[t]

\* handle_button_press(ev): no modifier mask is configured, so every press on
\* a window counts; button 1 starts a move, button 3 a resize, any other
\* button leaves _drag as it was
FmButtonPress(w, detail) ==
    /\ last.n < MaxFmOps
    /\ LET g == xgeom[w]
           mode == IF detail = 1 THEN "move" ELSE "resize"
       IN fm_drag' = (IF detail \in {1, 3}
                      THEN [win |-> w, mode |-> mode, sx |-> PressPoint[1], sy |-> PressPoint[2],
                            ox |-> g.x, oy |-> g.y, ow |-> g.width, oh |-> g.height]
                      ELSE fm_drag)
    /\ last' = FmOp("press", w, detail, None)
    /\ UNCHANGED <<xgeom, floating_windows, fm_positions, orig_geom, pre_float>>
    /\ UNCHANGED <<floating, cached_geom>>
    /\ FmFrame

\* handle_motion_notify applying the pointer's delta to the rectangle the
\* window has now instead of the one the drag started from
motion_notify_cumulative(d, g, px, py, scr) ==
    LET dx == px - d.sx
        dy == py - d.sy
        n == snap(g.x + dx, g.y + dy, d.ow, d.oh, scr)
    IN IF d.mode = "move" THEN Rect(n[1], n[2], g.width, g.height)
       ELSE Rect(g.x, g.y, resized(g.width, dx), resized(g.height, dy))

\* handle_motion_notify: the rectangle of the dragged window after the
\* configure, for the drag d, the window's rectangle g before the call and
\* the pointer at (px, py); a move configures x and y only, a resize width
\* and height only
motion_notify(d, g, px, py, scr) ==
    LET dx == px - d.sx
        dy == py - d.sy
        n == snap(d.ox + dx, d.oy + dy, d.ow, d.oh, scr)
    IN IF d.mode = "move" THEN Rect(n[1], n[2], g.width, g.height)
       ELSE Rect(g.x, g.y, resized(d.ow, dx), resized(d.oh, dy))

\* handle_motion_notify(ev) while a drag is in progress
FmMotionNotify(px, py) ==
    /\ last.n < MaxFmOps
    /\ fm_drag # NoDrag
    /\ LET d == fm_drag
           dx == px - d.sx
           dy == py - d.sy
           g == xgeom[d.win]
           r == motion_notify(d, g, px, py, screen)
       IN /\ xgeom' = [xgeom EXCEPT ![d.win] = r]
          /\ last' = (IF d.mode = "move"
                      THEN FmOp("move", d.win, Rect(d.ox + dx, d.oy + dy, d.ow, d.oh), [x |-> r.x, y |-> r.y])
                      ELSE FmOp("resize", d.win, Rect(g.x, g.y, d.ow + dx, d.oh + dy), [width |-> r.width, height |-> r.height]))
                     @@ [px |-> px, py |-> py, prev |-> g]
    /\ UNCHANGED <<floating_windows, fm_positions, orig_geom, fm_drag, pre_float>>
    /\ UNCHANGED <<floating, cached_geom>>
    /\ FmFrame

\* handle_button_release leaving _drag as it is when get_geometry raises
button_release_no_finally(d, pos, g, ok) ==
    [drag |-> IF ok THEN NoDrag ELSE d, pos |-> IF ok THEN (d.win :> g) @@ pos ELSE pos]

\* handle_button_release for the drag d: _drag and positions after it, g
\* being what target.get_geometry() returns and ok whether it returns; the
\* finally clause clears _drag either way
button_release(d, pos, g, ok) ==
    [drag |-> NoDrag, pos |-> IF ok THEN (d.win :> g) @@ pos ELSE pos]

\* handle_button_release(ev) while a drag is in progress
FmButtonRelease ==
    /\ last.n < MaxFmOps
    /\ fm_drag # NoDrag
    /\ fm_positions' = button_release(fm_drag, fm_positions, GeomOf(fm_drag.win), TRUE).pos
    /\ fm_drag' = button_release(fm_drag, fm_positions, GeomOf(fm_drag.win), TRUE).drag
    /\ last' = FmOp("release", fm_drag.win, None, None)
    /\ UNCHANGED <<xgeom, floating_windows, orig_geom, pre_float>>
    /\ UNCHANGED <<floating, cached_geom>>
    /\ FmFrame

\* WindowManager.resize_floating(mw, dw, dh) on a managed window: the window
\* becomes floating, then its geometry is read; a destroyed window ends the
\* call there, any other is configured with both sizes floored at 50 and its
\* cache is read again
ResizeFloating(w, dw, dh) ==
    /\ last.n < MaxFmOps
    /\ Contains(managed, w)
    /\ floating' = floating \cup {w}
    /\ IF ~update_geometry_from_x(w)
       THEN /\ last' = FmOp("resize_floating_stale", w, [floating |-> w \in floating, cache |-> cached_geom[w]], None)
            /\ UNCHANGED <<xgeom, cached_geom>>
       ELSE LET g == xgeom[w]
                new_w == Max(WM_MIN_SIZE, g.width + dw)
                new_h == Max(WM_MIN_SIZE, g.height + dh)
            IN /\ xgeom' = [xgeom EXCEPT ![w] = Rect(g.x, g.y, new_w, new_h)]
               /\ cached_geom' = cached_after(cached_after(cached_geom, xgeom, w), xgeom', w)
               /\ last' = FmOp("resize", w, Rect(g.x, g.y, g.width + dw, g.height + dh), [width |-> new_w, height |-> new_h])
    /\ UNCHANGED fmVars
    /\ FmFrame

NextFloating ==
    \/ \E w \in FmWindows, enable \in BOOLEAN, center \in BOOLEAN : FmSetFloating(w, enable, center)
    \/ \E w \in FmWindows, center \in BOOLEAN : FmToggleFloating(w, center)
    \/ \E w \in FmWindows, d \in FmDeltas : MoveBy(w, d[1], d[2])
    \/ \E w \in FmWindows, d \in FmDeltas : ResizeBy(w, d[1], d[2])
    \/ \E w \in FmWindows, detail \in 1 .. 3 : FmButtonPress(w, detail)
    \/ \E d \in FmDeltas : FmMotionNotify(PressPoint[1] + d[1], PressPoint[2] + d[2])
    \/ \E w \in FmWindows, d \in FmDeltas : ResizeFloating(w, d[1], d[2])
    \/ FmButtonRelease

SpecFloating == InitFloat /\ [][NextFloating]_vars

\* C11: a window that left tiling through set_floating(True) or toggle_floating
\* and is now returned by set_floating(False) or toggle_floating has exactly
\* the rectangle it had when it left tiling, whatever saved position,
\* centring, move, resize or drag was applied while it was floating.
C11_FloatRoundTrip ==
    (last.op = "set_floating_off" /\ last.ret.req.floating /\ pre_float[last.win] # NoRect)
        => xgeom[last.win] = pre_float[last.win]

\* a round trip that had moved the window: it came back from another rectangle
C11_Witness ==
    /\ last.op = "set_floating_off" /\ last.ret.req.floating /\ pre_float[last.win] # NoRect
    /\ last.ret.req.geom # pre_float[last.win]
    /\ xgeom[last.win] = pre_float[last.win]

\* C12: a move (move_by or a move drag) that asks for a left edge within the
\* snap threshold of the root's left edge ends with x on that edge; likewise
\* the top edge; a right or bottom edge within the threshold ends exactly on
\* the root's right or bottom edge.
C12_SnapExact ==
    last.op = "move" =>
        LET q == last.ret.req
            c == last.ret.conf
        IN /\ (Abs(q.x - screen.x) <= snap_threshold => c.x = screen.x)
           /\ (Abs(q.y - screen.y) <= snap_threshold => c.y = screen.y)
           /\ (Abs((q.x + q.width) - (screen.x + screen.width)) <= snap_threshold
                  => c.x + q.width = screen.x + screen.width)
           /\ (Abs((q.y + q.height) - (screen.y + screen.height)) <= snap_threshold
                  => c.y + q.height = screen.y + screen.height)

\* C19: every width and height a resize (resize_by, a resize drag,
\* WindowManager.resize_floating) configures is at least MIN_SIZE, whatever
\* the delta.
C19_ResizeFloor ==
    last.op = "resize" => (last.ret.conf.width >= MIN_SIZE /\ last.ret.conf.height >= MIN_SIZE)

\* a resize whose delta asked for a size of zero or less
C19_Witness ==
    /\ last.op = "resize"
    /\ last.ret.req.width <= 0 /\ last.ret.req.height <= 0
    /\ last.ret.conf.width >= MIN_SIZE /\ last.ret.conf.height >= MIN_SIZE

\* C13: switching monitor 0 from its workspace A to any workspace B and back
\* to A leaves monitor 0's visible-window list as it was and the set of
\* mapped windows as it was.
C13_SwitchRoundTrip ==
    \A b \in 0 .. (Len(workspaces) - 1) :
        LET a == monitors_active[0]
            r1 == switch_to(workspaces, monitors_active, sticky_windows, xmapped, client_list, b, 0)
            r2 == switch_to(workspaces, r1.act, sticky_windows, r1.mapped, r1.cl, a, 0)
        IN  /\ visible_windows_for_monitor(workspaces, r2.act, sticky_windows, 0)
                 = visible_windows_for_monitor(workspaces, monitors_active, sticky_windows, 0)
            /\ {w \in DOMAIN xmapped : r2.mapped[w]} = {w \in DOMAIN xmapped : xmapped[w]}

\* -------------------------------------- autostart (managers/workspaces.py)
\* The workspace names and autostart lists a persisted configuration holds.
AutoNames == {<<49>>, <<50>>}

AutoLists == {<<>>, <<"a">>, <<"a", "b">>, <<"a", "a">>}

\* WorkspaceManager.__init__ with autostart_on_start: the autostart loop for
\* monitors mon .. NumMon - 1, f[m] being the commands whose Popen raises
RECURSIVE autostart_on_start(_, _, _, _, _)
autostart_on_start(wss, act, mon, f, st) ==
    IF mon >= NumMon THEN st
    ELSE autostart_on_start(wss, act, mon + 1, f, maybe_run_autostart_for_monitor(wss, act, mon, f[mon], st))

InitAutostart ==
    /\ InitReg /\ InitX /\ InitLm /\ InitFm
    /\ workspaces \in {[i \in 1 .. NumWs |-> [Workspace(nm[i]) EXCEPT !.autostart = au[i]]] :
                          nm \in [1 .. NumWs -> AutoNames], au \in [1 .. NumWs -> AutoLists]}
    /\ monitors_active = [m \in 0 .. (NumMon - 1) |-> 0]
    /\ sticky_windows = <<>>
    /\ InitDesk /\ InitEwmh /\ InitLoop /\ InitSrv /\ InitDrag /\ InitBar
    /\ \E f \in [0 .. (NumMon - 1) -> SUBSET Range(workspaces[1].autostart)] :
         \E st \in {autostart_on_start(workspaces, monitors_active, 0, f, [run |-> {}, lc |-> [k \in AutoKeys |-> 0]])} :
             autostart_run = st.run /\ launch_count = st.lc
    /\ lay_wins = <<>>
    /\ lay_out = <<>>
    /\ last = NoOp

NextAutostart ==
    \/ \E i \in 0 .. (NumWs - 1), m \in 0 .. (NumMon - 1) : SwitchTo(i, m)
    \/ \E m \in 0 .. (NumMon - 1) : next_workspace(m)
    \/ \E m \in 0 .. (NumMon - 1) : prev_workspace(m)

SpecAutostart == InitAutostart /\ [][NextAutostart]_vars

\* C14: over any sequence of switch_to / next_workspace / prev_workspace calls
\* on any monitors, no (monitor, workspace, command) is launched more than
\* once.
C14_AutostartOnce == \A k \in AutoKeys : launch_count[k] <= 1

\* a workspace whose only command was launched on this monitor before is
\* entered again and the command is skipped
C14_Witness ==
    /\ last.op = "switch_to" /\ last.ret = 1
    /\ workspaces[last.ws + 1].autostart = <<"a">>
    /\ launch_count[<<last.idx, last.ws, "a">>] = 1
    /\ workspaces[1].name # workspaces[2].name

\* ---------------- the workspace manager and the desktop properties it publishes
\* The names add_workspace and rename_workspace are given: "1", "" and "22".
DeskNames == {<<49>>, <<>>, <<50, 50>>}

\* The target indexes move_window_to is given: one below and one above the
\* valid ones.
DeskTargets == (-1) .. NumWs

NextDesktop ==
    \/ \E name \in DeskNames : AddWorkspace(name)
    \/ \E i \in 0 .. (NumWs - 1) : RemoveWorkspace(i)
    \/ \E i \in 0 .. (NumWs - 1), name \in DeskNames : RenameWorkspace(i, name)
    \/ \E i \in 0 .. (NumWs - 1), m \in 0 .. (NumMon - 1) : SwitchTo(i, m)
    \/ \E m \in 0 .. (NumMon - 1) : next_workspace(m)
    \/ \E m \in 0 .. (NumMon - 1) : prev_workspace(m)
    \/ \E w \in WsWindows, t \in DeskTargets, fo \in BOOLEAN, m \in 0 .. (NumMon - 1) : MoveWindowTo(w, t, fo, m)

SpecDesktop == Init /\ [][NextDesktop]_vars

\* C17: after add_workspace, remove_workspace, rename_workspace, switch_to,
\* next_workspace or prev_workspace the published desktop count is the number
\* of workspaces, the published names read back as the workspace names in
\* order, and the published current desktop is monitor 0's active index.
C17_DesktopPropsPublished ==
    last.op \in {"add_workspace", "remove_workspace", "rename_workspace", "switch_to"} =>
        /\ net_number_of_desktops = Len(workspaces)
        /\ split_names(net_desktop_names) = [i \in 1 .. Len(workspaces) |-> workspaces[i].name]
        /\ net_current_desktop = monitors_active[0]

\* monitor 0 was switched to the second workspace after a rename
C17_Witness ==
    /\ last.op = "switch_to" /\ last.idx = 0 /\ last.ws = 1
    /\ Len(workspaces) = 2 /\ workspaces[1].name = <<50, 50>> /\ workspaces[2].name = <<>>
    /\ monitors_active[1] = 0
    /\ net_number_of_desktops = 2 /\ net_current_desktop = 1
    /\ net_desktop_names = <<50, 50, NUL>>

\* C20: move_window_to(win, target, follow, monitor) with a valid target
\* leaves win in the target workspace's list and in no other list, and with
\* follow the monitor's active workspace is the target; with an invalid
\* target no workspace list and no active index changes.
C20_MoveWindowTo ==
    [][last'.op = "move_window_to" =>
          LET w == last'.win
              t == last'.idx
          IN  IF t >= 0 /\ t < Len(workspaces)
              THEN /\ Contains(workspaces'[t + 1].windows, w)
                   /\ \A i \in DOMAIN workspaces' : i # t + 1 => ~Contains(workspaces'[i].windows, w)
                   /\ \A m \in 0 .. (NumMon - 1) : MoveWindowTo(w, t, TRUE, m) => monitors_active'[m] = t
              ELSE /\ [i \in DOMAIN workspaces' |-> workspaces'[i].windows] = [i \in DOMAIN workspaces |-> workspaces[i].windows]
                   /\ monitors_active' = monitors_active]_vars

\* a window was moved out of the first workspace into the second while the
\* monitor followed it
C20_Witness ==
    /\ last.op = "move_window_to" /\ last.ret = 0 /\ last.ws = 1
    /\ Len(workspaces) = 2
    /\ Contains(workspaces[2].windows, last.win) /\ ~Contains(workspaces[1].windows, last.win)
    /\ monitors_active[1] = 1 /\ monitors_active[0] = 0

\* --------------------------------------- client messages (mywm1.0/core/ewmh.py)
FS == "_NET_WM_STATE_FULLSCREEN"
MAX_H == "_NET_WM_STATE_MAXIMIZED_HORZ"
MAX_V == "_NET_WM_STATE_MAXIMIZED_VERT"
\* an atom the handler does not know
NoAtom == "0"

\* a state the handler has no branch for
ABOVE == "_NET_WM_STATE_ABOVE"
\* the atoms a state message carries in data32[1]
Atoms == {NoAtom, FS, MAX_H}

\* Monitor.contains_point
contains_point(m, px, py) == px >= m.x /\ px < m.x + m.width /\ py >= m.y /\ py < m.y + m.height

\* MultiMonitorManager.get_monitor_by_window: the index of the first monitor
\* that holds the window's centre, else of the primary monitor, which
\* detect_monitors chose as the first monitor at (0, 0), else the first one.
get_monitor_by_window(mons, g) ==
    LET cx == g.x + (g.width \div 2)
        cy == g.y + (g.height \div 2)
        hit == {i \in DOMAIN mons : contains_point(mons[i], cx, cy)}
        org == {i \in DOMAIN mons : mons[i].x = 0 /\ mons[i].y = 0}
    IN  IF hit # {} THEN CHOOSE i \in hit : \A j \in hit : i <= j
        ELSE IF org # {} THEN CHOOSE i \in org : \A j \in org : i <= j
        ELSE IF mons # <<>> THEN 1 ELSE 0

\* add_state_local appending the atom whether or not the property holds it
add_state_local_again(vals, atom) == Append(vals, atom)

\* EWMHManager.add_state_local, remove_state_local and toggle_state_local: the
\* new value of the window's _NET_WM_STATE
add_state_local(vals, atom) == IF Contains(vals, atom) THEN vals ELSE Append(vals, atom)

remove_state_local(vals, atom) == Remove(vals, atom)

toggle_state_local(vals, atom) == IF Contains(vals, atom) THEN Remove(vals, atom) ELSE Append(vals, atom)

\* WMContext.on_window_state_added: MultiMonitorManager has no
\* monitor_for_window, so the window is configured to the whole X screen.
on_window_state_added(g, state_name, scr) ==
    IF state_name = FS THEN Rect(0, 0, scr.width, scr.height) ELSE g

\* parse_net_wm_state_message accepting data32 of any length
parse_any_length(words) == words >= 0

\* EWMHManager.parse_net_wm_state_message: whether (action, atom1, atom2) come
\* out of an event whose data32 has that many words (-1: no data32 at all)
parse_net_wm_state_message(words) == words >= 3

\* the _NET_WM_STATE branch of EWMHManager.handle_client_message on a window
\* whose property is vals and whose rectangle is g, once the message is
\* parsed; hooks lists the WMContext hooks called (it has no
\* on_window_state_toggled)
net_wm_state_message(vals, g, action, a1, a2, scr) ==
    LET fs == a1 = FS \/ a2 = FS
        mx == a1 = MAX_H \/ a2 = MAX_H \/ a1 = MAX_V \/ a2 = MAX_V
        v1 == IF ~fs THEN vals
              ELSE IF action = 1 THEN add_state_local(vals, FS)
              ELSE IF action = 0 THEN remove_state_local(vals, FS)
              ELSE IF action = 2 THEN toggle_state_local(vals, FS)
              ELSE vals
        g1 == IF fs /\ action = 1 THEN on_window_state_added(g, FS, scr) ELSE g
        v2 == IF ~mx THEN v1
              ELSE IF action = 1 THEN add_state_local(add_state_local(v1, MAX_H), MAX_V)
              ELSE IF action = 0 THEN remove_state_local(remove_state_local(v1, MAX_H), MAX_V)
              ELSE IF action = 2 THEN toggle_state_local(toggle_state_local(v1, MAX_H), MAX_V)
              ELSE v1
        h1 == IF fs /\ action = 1 THEN <<"on_window_state_added">>
              ELSE IF fs /\ action = 0 THEN <<"on_window_state_removed">>
              ELSE <<>>
        h2 == IF mx /\ action = 1 THEN <<"on_window_state_added", "on_window_state_added">>
              ELSE IF mx /\ action = 0 THEN <<"on_window_state_removed", "on_window_state_removed">>
              ELSE <<>>
    IN  [vals |-> v2, geom |-> g1, hooks |-> h1 \o h2]

\* EWMHManager.set_active_window(w): a ClientMessage to the root window, which
\* the server queues for the manager itself (it selects SubstructureRedirect
\* and SubstructureNotify on the root); no property is written.
set_active_window(w) ==
    /\ Len(xevents) < MaxQueue
    /\ xevents' = Append(xevents, w)
    /\ UNCHANGED <<monitors, net_wm_state, net_active_window>>

\* One monitor over the whole screen, or NumMon side by side; nothing is
\* managed yet.
InitEwmhSpec ==
    /\ InitReg /\ InitX /\ InitLm /\ InitFm /\ InitAuto /\ InitLoop /\ InitSrv /\ InitDrag /\ InitBar
    /\ monitors \in {SideBySide(1), SideBySide(NumMon)}
    /\ workspaces = [i \in 1 .. NumWs |-> Workspace(DefaultNames[i])]
    /\ monitors_active = [m \in 0 .. (Len(monitors) - 1) |-> 0]
    /\ sticky_windows = <<>>
    /\ InitDesk
    /\ net_wm_state = [w \in AllWin |-> <<>>]
    /\ net_active_window = None
    /\ xevents = <<>>
    /\ lay_wins = <<>>
    /\ lay_out = <<>>
    /\ last = NoOp

\* handle_map_request with the message focus_window sends
MapRequest(w) == map_request(w) /\ set_active_window(w)

\* handle_destroy_notify: unmanage calls focus_window only when the focused
\* window went and another one is left
DestroyNotify(w) ==
    /\ destroy_notify(w)
    /\ IF focus = w /\ Remove(managed, w) # <<>>
       THEN set_active_window(Remove(managed, w)[1])
       ELSE UNCHANGED ewmhVars

\* the key bindings focus_next and focus_prev: focus_window on the new focus
KeyFocus(r) ==
    /\ focus' = r.focus
    /\ raised' = (raised \/ r.raised)
    /\ IF managed # <<>> /\ ~r.raised THEN set_active_window(r.focus) ELSE UNCHANGED ewmhVars
    /\ UNCHANGED <<managed, cached_geom, floating, client_list, wsVars, xVars, lmVars, layVars, fmVars, deskVars, autoVars, loopVars, srvVars, dragVars, barVars>>

KeyFocusNext ==
    /\ KeyFocus(focus_next(managed, focus))
    /\ last' = Op("focus_next", None, focus, IndexOf(managed, focus), Len(managed))

KeyFocusPrev ==
    /\ KeyFocus(focus_prev(managed, focus))
    /\ last' = Op("focus_prev", None, focus, IndexOf(managed, focus), Len(managed))

\* handle_client_message for a _NET_WM_STATE message about window w whose
\* data32 has `words` words (-1 when the event's data has no data32). The
\* history keeps the monitor that owned w when the message arrived, the
\* message's atoms, and the hooks called.
ClientMessageState(w, action, a1, a2, words) ==
    /\ \E r \in {IF parse_net_wm_state_message(words)
                  THEN net_wm_state_message(net_wm_state[w], xgeom[w], action, a1, a2, screen)
                  ELSE [vals |-> net_wm_state[w], geom |-> xgeom[w], hooks |-> <<>>]} :
          /\ net_wm_state' = [net_wm_state EXCEPT ![w] = r.vals]
          /\ xgeom' = [xgeom EXCEPT ![w] = r.geom]
          /\ last' = Op(IF parse_net_wm_state_message(words) /\ action = 1 /\ (a1 = FS \/ a2 = FS)
                           THEN "net_wm_state_add_fullscreen" ELSE "net_wm_state",
                        w, get_monitor_by_window(monitors, xgeom[w]), action, Len(managed))
                     @@ [a1 |-> a1, a2 |-> a2, words |-> words, hooks |-> r.hooks]
    /\ UNCHANGED <<regVars, wsVars, screen, xmapped, lmVars, layVars, fmVars, deskVars, autoVars, loopVars, srvVars, dragVars, barVars>>
    /\ UNCHANGED <<monitors, net_active_window, xevents>>

\* the _NET_ACTIVE_WINDOW branch for a message whose window is w: the root
\* property is written; WMContext.focus_window_by_wid finds no find_by_wid on
\* the WindowManager, so the focus stays.
net_active_window_message(w, d32) ==
    /\ net_active_window' = (IF d32 THEN w ELSE net_active_window)
    /\ last' = Op("net_active_window", w, focus, 0, Len(managed))
    /\ UNCHANGED <<regVars, wsVars, xVars, lmVars, layVars, fmVars, deskVars, autoVars, loopVars, srvVars, dragVars, barVars>>
    /\ UNCHANGED <<monitors, net_wm_state>>

\* a client (a pager, a task bar) asks for window w to be activated
ClientMessageActive(w, d32) ==
    /\ net_active_window_message(w, d32)
    /\ UNCHANGED xevents

\* the loop reads the oldest message the manager sent to the root itself
ClientMessageOwn(d32) ==
    /\ xevents # <<>>
    /\ net_active_window_message(Head(xevents), d32)
    /\ xevents' = Tail(xevents)

NextEwmh ==
    \/ \E w \in WsWindows : MapRequest(w)
    \/ \E w \in WsWindows : DestroyNotify(w)
    \/ KeyFocusNext
    \/ KeyFocusPrev
    \/ \E w \in WsWindows, action \in 0 .. 2, a1 \in Atoms : ClientMessageState(w, action, a1, NoAtom, 5)
    \/ \E w \in WsWindows, d32 \in BOOLEAN : ClientMessageActive(w, d32)
    \/ \E d32 \in BOOLEAN : ClientMessageOwn(d32)

SpecEwmh == InitEwmhSpec /\ [][NextEwmh]_vars

\* C15: once a _NET_WM_STATE message with action 1 (add) naming fullscreen has
\* been handled for window W, W's rectangle is exactly the rectangle of the
\* monitor that owned W, and W's state property holds the fullscreen atom.
C15_FullscreenAdd ==
    last.op = "net_wm_state_add_fullscreen" =>
        /\ xgeom[last.win] = monitors[last.ret]
        /\ Contains(net_wm_state[last.win], FS)

\* C16: at the end of every handler invocation the root property
\* _NET_ACTIVE_WINDOW names the focused window, and no window when the focus
\* is absent.
C16_ActiveWindowIsFocus ==
    last.op # "init" => net_active_window = focus


\* ------------------------- the event loops (mywm1.0/main.py and src/main.py)
\* the event types the two dispatchers tell apart, and one they both ignore
EventTypes ==
    {"MapRequest", "DestroyNotify", "ConfigureRequest", "KeyPress", "ButtonPress",
     "MotionNotify", "ButtonRelease", "PropertyNotify", "ClientMessage", "Expose"}

\* what reading and handling one event can end in
Outcomes == {"ok", "exception", "keyboard_interrupt"}

LoopOp(name, et, out, k) == Op(name, None, out, 0, k) @@ [et |-> et]

LoopFrame == UNCHANGED <<regVars, wsVars, xVars, lmVars, layVars, fmVars, deskVars, autoVars, ewmhVars, srvVars, dragVars, barVars>>

\* sigterm, installed for SIGINT and SIGTERM: only the flag changes
Sigterm ==
    /\ running
    /\ running' = FALSE
    /\ last' = LoopOp("sigterm", "", "ok", last.n)
    /\ UNCHANGED <<main_pc, main_events, legacy_pc, legacy_events>>
    /\ LoopFrame

\* mywm1.0 main, one turn of "while _running": next_event and the dispatch
\* run inside try; KeyboardInterrupt breaks, any other Exception is logged.
MainLoopEvent(et, out) ==
    /\ main_pc = "loop" /\ running
    /\ main_events < MaxLoopEv
    /\ main_events' = main_events + 1
    /\ main_pc' = (IF out = "keyboard_interrupt" THEN "exit_interrupt" ELSE "loop")
    /\ last' = LoopOp("main_event", et, out, last.n)
    /\ UNCHANGED <<running, legacy_pc, legacy_events>>
    /\ LoopFrame

\* mywm1.0 main: the loop condition is false, cleanup follows
MainLoopExit ==
    /\ main_pc = "loop" /\ ~running
    /\ main_pc' = "exit_flag"
    /\ last' = LoopOp("main_exit", "", "ok", last.n)
    /\ UNCHANGED <<running, main_events, legacy_pc, legacy_events>>
    /\ LoopFrame

\* core/events.py handle_event: what a handler can end in, by event type.
\* handle_map_request and handle_destroy_notify read
\* wm_state["current_workspace"], a key main never stores; the handlers of
\* ConfigureRequest and KeyPress call into other modules; those of ButtonPress
\* and MotionNotify are empty, and other types are ignored.
handle_event(et) ==
    IF et \in {"MapRequest", "DestroyNotify"} THEN {"exception", "keyboard_interrupt"}
    ELSE IF et \in {"ConfigureRequest", "KeyPress"} THEN Outcomes
    ELSE {"ok", "keyboard_interrupt"}

\* src/main.py main, one turn of "while True": next_event and handle_event
\* with no try around them, so whatever a handler raises leaves the loop.
LegacyLoopEvent(et, out) ==
    /\ legacy_pc = "loop"
    /\ legacy_events < MaxLoopEv
    /\ out \in handle_event(et)
    /\ legacy_events' = legacy_events + 1
    /\ legacy_pc' = (IF out = "ok" THEN "loop" ELSE IF out = "exception" THEN "exit_exception" ELSE "exit_interrupt")
    /\ last' = LoopOp("legacy_event", et, out, last.n)
    /\ UNCHANGED <<running, main_pc, main_events>>
    /\ LoopFrame

NextLoop ==
    \/ Sigterm
    \/ \E et \in EventTypes, out \in Outcomes : MainLoopEvent(et, out)
    \/ MainLoopExit
    \/ \E et \in EventTypes, out \in Outcomes : LegacyLoopEvent(et, out)

InitLoopSpec ==
    /\ InitReg /\ InitWs /\ InitX /\ InitLm /\ InitExt
    /\ lay_wins = <<>>
    /\ lay_out = <<>>
    /\ last = LoopOp("init", "", "ok", 0)

SpecLoop == InitLoopSpec /\ [][NextLoop]_vars

\* C18: no per-event error ends an event loop: a loop that has ended was
\* ended by the shutdown flag or by a keyboard interrupt, never by an
\* exception of a handler.
C18_LoopSurvivesErrors ==
    /\ main_pc \in {"loop", "exit_flag", "exit_interrupt"}
    /\ legacy_pc \in {"loop", "exit_interrupt"}


\* ------------------------------------------------ monitors and visibility
\* the windows of the workspaces active on the monitors other than mon
on_other_monitor(wss, act, mon) ==
    UNION {Range(wss[act[m] + 1].windows) : m \in (DOMAIN act) \ {mon}}

\* C21: switch_to on monitor m changes only m's active index, and a
\* non-sticky window of the workspace active on another monitor that was
\* mapped stays mapped after the switch.
C21_MonitorsIndependent ==
    [][last'.op = "switch_to" =>
          /\ \A m \in (DOMAIN monitors_active) \ {last'.idx} : monitors_active'[m] = monitors_active[m]
          /\ \A w \in on_other_monitor(workspaces, monitors_active, last'.idx) :
                 (xmapped[w] /\ ~Contains(sticky_windows, w)) => xmapped'[w]]_vars


\* ------------------------------------ state-change requests (_NET_WM_STATE)
\* the values of _NET_WM_STATE the clients set on their windows before any
\* request: nothing, fullscreen, maximized horizontally only, all three
ClientStates == {<<>>, <<FS>>, <<MAX_H>>, <<MAX_H, MAX_V, FS>>}

\* the lengths of data32 tried: no data32 at all, too short, the protocol's 5
WordCounts == {-1, 2, 5}

InitState ==
    /\ InitReg /\ InitWs /\ InitX /\ InitLm /\ InitFm /\ InitDesk /\ InitAuto /\ InitLoop /\ InitSrv /\ InitDrag /\ InitBar
    /\ monitors = SideBySide(NumMon)
    /\ net_wm_state \in {[w \in AllWin |-> IF w \in FmWindows THEN f[w] ELSE <<>>] : f \in [FmWindows -> ClientStates]}
    /\ net_active_window = None
    /\ xevents = <<>>
    /\ lay_wins = <<>>
    /\ lay_out = <<>>
    /\ last = NoOp

NextState ==
    \E w \in FmWindows, action \in 0 .. 3, a1 \in Atoms, a2 \in {NoAtom, FS, MAX_V, ABOVE}, words \in WordCounts :
        ClientMessageState(w, action, a1, a2, words)

SpecState == InitState /\ [][NextState]_vars

\* how often the atom is in the list
Count(vals, atom) == Cardinality({i \in DOMAIN vals : vals[i] = atom})

\* the message of the history names fullscreen / a maximized atom
NamesFs(l) == l.a1 = FS \/ l.a2 = FS

NamesMax(l) == l.a1 = MAX_H \/ l.a2 = MAX_H \/ l.a1 = MAX_V \/ l.a2 = MAX_V

\* the step is a state message with at least three words and that action code
StateRequest(action) ==
    /\ last'.op \in {"net_wm_state", "net_wm_state_add_fullscreen"}
    /\ last'.words >= 3
    /\ last'.idx = action

\* C22: a well-formed request naming fullscreen follows the codes add = 1,
\* remove = 0, toggle = 2: add leaves the flag present exactly once, remove
\* leaves it absent, toggle flips it, and a second toggle would restore the
\* flag set the window had.
C22_StateActionCodes ==
    [][\A action \in 0 .. 2 : (StateRequest(action) /\ NamesFs(last')) =>
          LET before == net_wm_state[last'.win]
              after == net_wm_state'[last'.win]
          IN  /\ action = 1 => Count(after, FS) = 1
              /\ action = 0 => Count(after, FS) = 0
              /\ action = 2 => (Contains(after, FS) <=> ~Contains(before, FS))
              /\ action = 2 => Range(net_wm_state_message(after, xgeom'[last'.win], 2, last'.a1, last'.a2, screen).vals) = Range(before)]_vars

\* a toggle request has set the fullscreen flag on a maximized window
C22_Witness ==
    /\ last.op = "net_wm_state"
    /\ last.words >= 3 /\ NamesFs(last) /\ last.idx = 2
    /\ net_wm_state[last.win] = <<MAX_H, MAX_V, FS>>

\* C24: a malformed state message (fewer than three data words, or an action
\* code other than 0, 1, 2) changes no window's flags and no window's
\* rectangle and calls no hook; and a well-formed maximize request acts on
\* both maximized flags: add leaves both present, remove both absent, toggle
\* flips both.
C24_MalformedIgnored ==
    [][last'.op \in {"net_wm_state", "net_wm_state_add_fullscreen"} =>
          LET before == net_wm_state[last'.win]
              after == net_wm_state'[last'.win]
          IN  /\ (last'.words < 3 \/ last'.idx \notin 0 .. 2) =>
                     (net_wm_state' = net_wm_state /\ xgeom' = xgeom /\ last'.hooks = <<>>)
              /\ (StateRequest(1) /\ NamesMax(last')) => (Contains(after, MAX_H) /\ Contains(after, MAX_V))
              /\ (StateRequest(0) /\ NamesMax(last')) => (~Contains(after, MAX_H) /\ ~Contains(after, MAX_V))
              /\ (StateRequest(2) /\ NamesMax(last')) =>
                     /\ Contains(after, MAX_H) <=> ~Contains(before, MAX_H)
                     /\ Contains(after, MAX_V) <=> ~Contains(before, MAX_V)]_vars

\* a message with two data words that names fullscreen with the add code has
\* been handled for a window that is not fullscreen
C24_Witness ==
    /\ last.op = "net_wm_state"
    /\ last.words = 2 /\ NamesFs(last) /\ last.idx = 1
    /\ ~Contains(net_wm_state[last.win], FS)


\* ------------------------------------------------------- monitor detection
\* what a probe of the outputs (RandR, or the xrandr command) can report: the
\* active outputs' rectangles, in order
OutputSets ==
    {<<>>, SideBySide(1), SideBySide(NumMon),
     <<Rect(ScreenW \div 2, 0, ScreenW \div 2, ScreenH)>>,
     <<Rect(0, 0, ScreenW \div 2, ScreenH)>>,
     <<Rect(0, 0, ScreenW, ScreenH \div 2), Rect(0, ScreenH \div 2, ScreenW, ScreenH \div 2)>>,
     <<Rect(ScreenW \div 2, 0, ScreenW \div 2, ScreenH), Rect(0, 0, ScreenW \div 2, ScreenH)>>}

\* a probe's result: it raised, or it reported outs
Probes == {[ok |-> FALSE, outs |-> <<>>]} \cup {[ok |-> TRUE, outs |-> o] : o \in OutputSets}

\* MultiMonitorManager._detect_via_xrandr: the list returned and the registry
\* afterwards (a raising command leaves self.monitors as it was)
detect_via_xrandr(mons, xr) ==
    IF xr.ok THEN [ret |-> xr.outs, monitors |-> xr.outs] ELSE [ret |-> <<>>, monitors |-> mons]

\* MultiMonitorManager.detect_monitors with registry mons, given what RandR
\* and the xrandr command report
detect_monitors(mons, rr, xr, fallback) ==
    IF rr.ok /\ rr.outs # <<>> THEN [ret |-> rr.outs, monitors |-> rr.outs]
    ELSE IF fallback THEN detect_via_xrandr(mons, xr)
    ELSE [ret |-> <<>>, monitors |-> <<>>]

\* src/managers/monitor.py get_monitors, given what RandR reports
get_monitors(rr, scr) ==
    IF ~rr.ok THEN <<Rect(0, 0, scr.width, scr.height)>>
    ELSE IF rr.outs = <<>> THEN <<Rect(0, 0, scr.width, scr.height)>>
    ELSE rr.outs

MonFrame == UNCHANGED <<regVars, wsVars, xVars, lmVars, layVars, fmVars, deskVars, autoVars, loopVars, srvVars, dragVars, barVars, net_wm_state, net_active_window, xevents>>

\* detect_monitors as main and refresh call it (fallback_use_xrandr is True)
DetectMonitors(rr, xr) ==
    /\ \E r \in {detect_monitors(monitors, rr, xr, TRUE)} :
          /\ monitors' = r.monitors
          /\ last' = Op("detect_monitors", None, r.ret, 0, 0) @@ [rr |-> rr, xr |-> xr]
    /\ MonFrame

\* get_monitors of the first tree: it keeps no registry, the list is returned
GetMonitors(rr) ==
    /\ last' = Op("get_monitors", None, get_monitors(rr, screen), 0, 0) @@ [rr |-> rr, xr |-> rr]
    /\ monitors' = monitors
    /\ MonFrame

\* MultiMonitorManager.__init__: the registry starts empty
InitMonitors ==
    /\ InitReg /\ InitWs /\ InitX /\ InitLm /\ InitFm /\ InitDesk /\ InitAuto /\ InitLoop /\ InitSrv /\ InitDrag /\ InitBar
    /\ monitors = <<>>
    /\ net_wm_state = [w \in AllWin |-> <<>>]
    /\ net_active_window = None
    /\ xevents = <<>>
    /\ lay_wins = <<>>
    /\ lay_out = <<>>
    /\ last = NoOp

NextMonitors ==
    \/ \E rr, xr \in Probes : DetectMonitors(rr, xr)
    \/ \E rr \in Probes : GetMonitors(rr)

SpecMonitors == InitMonitors /\ [][NextMonitors]_vars

MaxRmWs == 3

\* the indexes remove_workspace is called with
RmIndexes == (-1) .. MaxRmWs

\* WorkspaceManager.remove_workspace(index), the refused calls included: an
\* index out of range, or the last workspace
remove_workspace(index) ==
    IF index < 0 \/ index >= Len(workspaces) \/ Len(workspaces) <= 1
    THEN /\ last' = OpWs("remove_workspace_refused", None, None, 0, Len(workspaces), index)
         /\ UNCHANGED <<regVars, wsVars, xVars, lmVars, layVars, extVars>>
    ELSE RemoveWorkspace(index)

InitRemove ==
    /\ InitReg /\ InitX /\ InitLm /\ InitFm /\ InitAuto /\ InitEwmh /\ InitLoop /\ InitSrv /\ InitDrag /\ InitBar
    /\ workspaces = [i \in 1 .. MaxRmWs |-> Workspace(DefaultNames[i])]
    /\ monitors_active = [m \in 0 .. (NumMon - 1) |-> 0]
    /\ sticky_windows = <<>>
    /\ InitDesk
    /\ lay_wins = <<>>
    /\ lay_out = <<>>
    /\ last = NoOp

NextRemove ==
    \/ \E i \in RmIndexes : remove_workspace(i)
    \/ \E w \in WsWindows, t \in 0 .. (MaxRmWs - 1), fo \in BOOLEAN : MoveWindowTo(w, t, fo, 0)
    \/ \E i \in 0 .. (MaxRmWs - 1), m \in 0 .. (NumMon - 1) : SwitchTo(i, m)

SpecRemove == InitRemove /\ [][NextRemove]_vars

\* C25: remove_workspace(index) loses no window: every window of the removed
\* workspace is afterwards in the list of the workspace that was at
\* index - 1 (of the new first workspace when index = 0) and in no other; a
\* call with an index out of range, or with one workspace left, changes
\* nothing.
C25_RemoveKeepsWindows ==
    [][/\ last'.op = "remove_workspace" =>
             LET dest == IF last'.ws = 0 THEN 1 ELSE last'.ws
             IN  /\ Len(workspaces') = Len(workspaces) - 1
                 /\ \A w \in Range(workspaces[last'.ws + 1].windows) :
                        \A i \in DOMAIN workspaces' : Contains(workspaces'[i].windows, w) <=> i = dest
       /\ last'.op = "remove_workspace_refused" =>
             (workspaces' = workspaces /\ monitors_active' = monitors_active /\ UNCHANGED deskVars)]_vars

\* the middle one of three workspaces has been removed while it held a
\* window, and two workspaces are left
C25_Witness ==
    /\ last.op = "remove_workspace"
    /\ last.ws = 1 /\ last.n = MaxRmWs
    /\ last.ret # <<>>
    /\ Len(workspaces) = 2


\* ------------------------------------------ stale windows (managers/window.py)
\* A client destroys its window: the server forgets it at once, while the
\* DestroyNotify that will unmanage it has not been read yet.
XDestroyWindow(w) ==
    /\ last.n < MaxFmOps
    /\ w \notin xgone
    /\ xgone' = xgone \cup {w}
    /\ last' = FmOp("x_destroy", w, None, None)
    /\ UNCHANGED <<regVars, wsVars, xVars, lmVars, layVars, fmVars, deskVars, autoVars, ewmhVars, loopVars, dragVars, barVars>>

\* ManagedWindow.update_geometry_from_x() called on its own
UpdateGeometryFromX(w) ==
    /\ last.n < MaxFmOps
    /\ Contains(managed, w)
    /\ cached_geom' = cached_after(cached_geom, xgeom, w)
    /\ last' = FmOp(IF update_geometry_from_x(w) THEN "update_geometry" ELSE "update_geometry_stale", w,
                    [floating |-> w \in floating, cache |-> cached_geom[w]], update_geometry_from_x(w))
    /\ UNCHANGED <<floating, xgeom, fmVars>>
    /\ FmFrame

\* WindowManager.move_floating(mw, dx, dy) on a managed window: the window
\* becomes floating, then its geometry is read; a destroyed window ends the
\* call there, any other is configured at the shifted position and its cache
\* is read again
MoveFloating(w, dx, dy) ==
    /\ last.n < MaxFmOps
    /\ Contains(managed, w)
    /\ floating' = floating \cup {w}
    /\ IF ~update_geometry_from_x(w)
       THEN /\ last' = FmOp("move_floating_stale", w, [floating |-> w \in floating, cache |-> cached_geom[w]], None)
            /\ UNCHANGED <<xgeom, cached_geom>>
       ELSE LET g == xgeom[w]
                new_x == g.x + dx
                new_y == g.y + dy
            IN /\ xgeom' = [xgeom EXCEPT ![w] = Rect(new_x, new_y, g.width, g.height)]
               /\ cached_geom' = cached_after(cached_after(cached_geom, xgeom, w), xgeom', w)
               /\ last' = FmOp("move_floating", w, Rect(new_x, new_y, g.width, g.height), [x |-> new_x, y |-> new_y])
    /\ UNCHANGED fmVars
    /\ FmFrame

NextStale ==
    \/ \E w \in FmWindows : XDestroyWindow(w)
    \/ \E w \in FmWindows : UpdateGeometryFromX(w)
    \/ \E w \in FmWindows, d \in FmDeltas : MoveFloating(w, d[1], d[2])
    \/ \E w \in FmWindows, d \in FmDeltas : ResizeFloating(w, d[1], d[2])

SpecStale == InitFloat /\ [][NextStale]_vars

\* the operations that found their window destroyed
StaleOps == {"update_geometry_stale", "move_floating_stale", "resize_floating_stale"}

\* C26: an operation on a destroyed window is abandoned with no partial
\* effect: update_geometry_from_x returns False and keeps cached_geom, and
\* move_floating and resize_floating leave the window's cache and its
\* floating flag as they were; the window is no longer in the registry.
C26_StaleAbandoned ==
    last.op \in StaleOps =>
        /\ cached_geom[last.win] = last.ret.req.cache
        /\ (last.win \in floating) = last.ret.req.floating
        /\ ~Contains(managed, last.win)
        /\ (last.op = "update_geometry_stale" => last.ret.conf = FALSE)

\* --------------------------------- tabbed and stacking (core/layouts.py)
\* Tabbed.next_tab(windows): the new current_tab
next_tab(tab, wins) == IF wins # <<>> THEN (tab + 1) % Len(wins) ELSE tab

\* Tabbed.prev_tab(windows); Python's % is never negative
prev_tab(tab, wins) == IF wins # <<>> THEN (tab - 1 + Len(wins)) % Len(wins) ELSE tab

\* Stacking.cycle(windows): the new current
cycle(cur, wins) == IF wins # <<>> THEN (cur + 1) % Len(wins) ELSE cur

TabWindows == 1 .. MaxLayN

\* The tabbed or the stacking layout is selected; the list handed to it holds
\* the first n windows, none mapped yet, and both indexes are 0 as __init__
\* leaves them.
InitTabs ==
    /\ InitReg /\ InitWs /\ InitExt
    /\ screen = Rect(0, 0, ScreenW, ScreenH)
    /\ lm_current \in {5, 6}
    /\ lay_wins \in {Iota(n) : n \in 0 .. MaxLayN}
    /\ xgeom = [w \in TabWindows |-> NewGeom]
    /\ xmapped = [w \in TabWindows |-> FALSE]
    /\ positions = <<>>
    /\ current_tab = 0
    /\ stack_current = 0
    /\ lay_out = <<>>
    /\ last = NoOp

TabsFrame == UNCHANGED <<regVars, wsVars, screen, lm_current, positions, lay_out, extVars>>

TabNext ==
    /\ lm_current = 5
    /\ current_tab' = next_tab(current_tab, lay_wins)
    /\ last' = Op("next_tab", None, None, current_tab, Len(lay_wins))
    /\ UNCHANGED <<stack_current, lay_wins, xgeom, xmapped>>
    /\ TabsFrame

TabPrev ==
    /\ lm_current = 5
    /\ current_tab' = prev_tab(current_tab, lay_wins)
    /\ last' = Op("prev_tab", None, None, current_tab, Len(lay_wins))
    /\ UNCHANGED <<stack_current, lay_wins, xgeom, xmapped>>
    /\ TabsFrame

Cycle ==
    /\ lm_current = 6
    /\ stack_current' = cycle(stack_current, lay_wins)
    /\ last' = Op("cycle", None, None, stack_current, Len(lay_wins))
    /\ UNCHANGED <<current_tab, lay_wins, xgeom, xmapped>>
    /\ TabsFrame

\* a window joins the list the layout is given (it was managed, or it
\* stopped floating); the layouts keep no list of their own
ListAdd(w) ==
    /\ ~Contains(lay_wins, w)
    /\ lay_wins' = Append(lay_wins, w)
    /\ last' = Op("list_add", w, None, 0, Len(lay_wins))
    /\ UNCHANGED <<current_tab, stack_current, xgeom, xmapped>>
    /\ TabsFrame

\* a window leaves the list (it was unmanaged, or it became floating)
ListRemove(w) ==
    /\ Contains(lay_wins, w)
    /\ lay_wins' = Remove(lay_wins, w)
    /\ last' = Op("list_remove", w, None, IndexOf(lay_wins, w), Len(lay_wins))
    /\ UNCHANGED <<current_tab, stack_current, xgeom, xmapped>>
    /\ TabsFrame

\* Tabbed.apply / Stacking.apply(windows, screen_geom) on the current list
TabsApply ==
    /\ LET st == LayoutManagerApply(lm_current, lay_wins, screen, LState(xgeom, xmapped, positions), current_tab, stack_current)
       IN  xgeom' = st.geom /\ xmapped' = st.mapped
    /\ last' = Op("apply_tabs", None, None, IF lm_current = 5 THEN current_tab ELSE stack_current, Len(lay_wins))
    /\ UNCHANGED <<current_tab, stack_current, lay_wins>>
    /\ TabsFrame

NextTabs ==
    \/ TabNext
    \/ TabPrev
    \/ Cycle
    \/ \E w \in TabWindows : ListAdd(w)
    \/ \E w \in TabWindows : ListRemove(w)
    \/ TabsApply

SpecTabs == InitTabs /\ [][NextTabs]_vars

\* C27: after any next_tab, prev_tab, cycle, additions and removals, applying
\* the tabbed or the stacking layout to a non-empty list leaves exactly the
\* window at the current index mapped, that index being below the length of
\* the list, with the whole rectangle, and every other window of the list
\* unmapped; next_tab and cycle step the index forward and prev_tab backward
\* modulo the length of the list.
C27_OneVisibleTab ==
    /\ (last.op = "apply_tabs" /\ lay_wins # <<>>) =>
           /\ last.idx < Len(lay_wins)
           /\ \A i \in 1 .. Len(lay_wins) : xmapped[lay_wins[i]] <=> (i = last.idx + 1)
           /\ last.idx < Len(lay_wins) => xgeom[lay_wins[last.idx + 1]] = screen
    /\ (last.op \in {"next_tab", "cycle"} /\ lay_wins # <<>>) =>
           (IF lm_current = 5 THEN current_tab ELSE stack_current) = (last.idx + 1) % Len(lay_wins)
    /\ (last.op = "prev_tab" /\ lay_wins # <<>>) =>
           current_tab = (last.idx - 1 + Len(lay_wins)) % Len(lay_wins)

\* ------------------------------ the tiling layouts' rectangles (core/layouts.py)
\* The layouts of LayoutManager.layouts that tile: all but the floating one.
TilingLayouts == {0, 1, 3, 4, 5, 6}

\* Monitor rectangles: the small ones, one a little taller than the tab bar,
\* and the whole screen.
InsideRects == GeomRects \cup {Rect(0, 0, 30, TAB_BAR + 5), Rect(0, 0, ScreenW, ScreenH)}

\* One of the tiling layouts is selected and is about to be applied to 0 to
\* MaxTileN windows, none configured or mapped yet.
InitInside ==
    /\ InitReg /\ InitWs /\ InitExt
    /\ screen \in InsideRects
    /\ lm_current \in TilingLayouts
    /\ lay_wins \in {Iota(n) : n \in 0 .. MaxTileN}
    /\ xgeom = [w \in Range(lay_wins) |-> NewGeom]
    /\ xmapped = [w \in Range(lay_wins) |-> FALSE]
    /\ positions = <<>>
    /\ current_tab = 0
    /\ stack_current = 0
    /\ lay_out = <<>>
    /\ last = NoOp

\* LayoutManager.apply(windows, screen_geom) with a tiling layout current
TileApply ==
    /\ last.op = "init"
    /\ LET st == LayoutManagerApply(lm_current, lay_wins, screen, LState(xgeom, xmapped, positions), current_tab, stack_current)
       IN  xgeom' = st.geom /\ xmapped' = st.mapped /\ positions' = st.pos
    /\ last' = Op("tile", None, None, lm_current, Len(lay_wins))
    /\ UNCHANGED <<regVars, wsVars, screen, lm_current, current_tab, stack_current, layVars, extVars>>

NextInside == TileApply

SpecInside == InitInside /\ [][NextInside]_vars

\* rectangle r lies within rectangle sg
Within(r, sg) ==
    /\ r.x >= sg.x /\ r.y >= sg.y
    /\ r.x + r.width <= sg.x + sg.width
    /\ r.y + r.height <= sg.y + sg.height

\* C28: every rectangle a tiling layout (bsp, grid, tabbed, stacking,
\* monocle, fullscreen) gives a window it shows lies within the monitor
\* rectangle and has positive width and height, for every number of windows
\* and every rectangle, however narrow or short.
C28_TilesInsideMonitor ==
    last.op = "tile" =>
        \A w \in Range(lay_wins) :
            xmapped[w] => (Within(xgeom[w], screen) /\ xgeom[w].width > 0 /\ xgeom[w].height > 0)

\* ------------------------------------------- edge snap, edge by edge
\* the four edges of rectangle r: left, top, right, bottom
Edges(r) == [left |-> r.x, top |-> r.y, right |-> r.x + r.width, bottom |-> r.y + r.height]

EdgeNames == {"left", "top", "right", "bottom"}

\* C29: after a move (move_by or a move drag) every edge of the requested
\* rectangle that lay within the snap threshold of the same edge of the root
\* is exactly on that edge of the root; a window with its left and its right
\* edge both within the threshold ends spanning the root's width.
C29_SnapEachEdge ==
    last.op = "move" =>
        \A e \in EdgeNames :
            Abs(Edges(last.ret.req)[e] - Edges(screen)[e]) <= snap_threshold
                => Edges(xgeom[last.win])[e] = Edges(screen)[e]

\* ------------------------------------ the press that starts a drag (floating.py)
\* a & b on non-negative integers
RECURSIVE BitAnd(_, _)
BitAnd(a, b) ==
    IF a = 0 \/ b = 0 THEN 0
    ELSE 2 * BitAnd(a \div 2, b \div 2) + (IF a % 2 = 1 /\ b % 2 = 1 THEN 1 ELSE 0)

\* X.ShiftMask and X.Mod4Mask
ShiftMask == 1
Mod4Mask == 64

\* wm.mod_mask or wm.config["mod_mask"]: 0 when neither is set
ModMasks == {0, Mod4Mask}

\* ev.state: the modifiers held at the press
ModStates == {0, ShiftMask, Mod4Mask, ShiftMask + Mod4Mask}

\* handle_button_press(ev) in full, for a press the root reports: mod_mask
\* is the configured mask, state the modifiers held, child the client under
\* the pointer (None on the bare root), detail the button
HandleButtonPress(mod_mask, state, child, detail) ==
    /\ last.n < MaxFmOps
    /\ LET target == IF child # None THEN child ELSE RootWin
           g == GeomOf(target)
           mode == IF detail = 1 THEN "move" ELSE "resize"
           returns == mod_mask # 0 /\ BitAnd(state, mod_mask) = 0
       IN /\ fm_drag' = (IF ~returns /\ detail \in {1, 3}
                         THEN [win |-> target, mode |-> mode, sx |-> PressPoint[1], sy |-> PressPoint[2],
                               ox |-> g.x, oy |-> g.y, ow |-> g.width, oh |-> g.height]
                         ELSE fm_drag)
          /\ last' = FmOp("button_press", target,
                          [mod_mask |-> mod_mask, state |-> state, detail |-> detail, drag |-> fm_drag, geom |-> g], None)
    /\ UNCHANGED <<xgeom, floating_windows, fm_positions, orig_geom, pre_float>>
    /\ UNCHANGED <<floating, cached_geom>>
    /\ FmFrame

NextPress ==
    \/ \E m \in ModMasks, st \in ModStates, child \in FmWindows \cup {None}, detail \in 1 .. 3 :
           HandleButtonPress(m, st, child, detail)
    \/ \E w \in FmWindows, enable \in BOOLEAN : FmSetFloating(w, enable, FALSE)
    \/ FmButtonRelease

SpecPress == InitFloat /\ [][NextPress]_vars

\* C30: a button press starts a drag only when a modifier is configured and
\* held, the button is the move or the resize button and the target is a
\* client window; the drag then holds the window's rectangle and the
\* pointer's coordinates at the press; any other press leaves an idle
\* controller idle.
C30_DragOnlyOnQualifyingPress ==
    (last.op = "button_press" /\ last.ret.req.drag = NoDrag) =>
        LET q == last.ret.req
            qualifying == /\ q.mod_mask # 0 /\ BitAnd(q.state, q.mod_mask) # 0
                          /\ q.detail \in {1, 3}
                          /\ last.win # RootWin
        IN  IF qualifying
            THEN /\ fm_drag.win = last.win
                 /\ <<fm_drag.sx, fm_drag.sy>> = PressPoint
                 /\ Rect(fm_drag.ox, fm_drag.oy, fm_drag.ow, fm_drag.oh) = q.geom
            ELSE fm_drag = NoDrag

\* ------------------------------------------- drag sessions, motion by motion
\* WindowManager.start_drag(mw, pointer_x, pointer_y, mode) on a managed window
StartDrag(w, mode) ==
    /\ last.n < MaxFmOps
    /\ Contains(managed, w)
    /\ cached_geom' = cached_after(cached_geom, xgeom, w)
    /\ drag_state' = [mw |-> w, mode |-> mode, start_pointer |-> PressPoint, start_geom |-> cached_geom'[w]]
    /\ last' = FmOp("start_drag", w, None, None)
    /\ UNCHANGED <<floating, xgeom, fmVars, srvVars, barVars>>
    /\ UNCHANGED <<managed, focus, client_list, raised, wsVars, screen, xmapped, lmVars, layVars, deskVars, autoVars, ewmhVars, loopVars>>

\* WindowManager.drag: the rectangle of the dragged window after the
\* configure, for the drag state ds, the window's rectangle g before the
\* call and the pointer at (px, py)
drag(ds, g, px, py) ==
    LET dx == px - ds.start_pointer[1]
        dy == py - ds.start_pointer[2]
        sg == ds.start_geom
    IN IF ds.mode = "move" THEN Rect(sg.x + dx, sg.y + dy, g.width, g.height)
       ELSE Rect(g.x, g.y, Max(WM_MIN_SIZE, sg.width + dx), Max(WM_MIN_SIZE, sg.height + dy))

\* WindowManager.drag(pointer_x, pointer_y) while a drag is in progress
Drag(px, py) ==
    /\ last.n < MaxFmOps
    /\ drag_state # NoDragState
    /\ LET w == drag_state.mw
       IN /\ xgeom' = [xgeom EXCEPT ![w] = drag(drag_state, xgeom[w], px, py)]
          /\ cached_geom' = cached_after(cached_geom, xgeom', w)
          /\ last' = FmOp("wm_drag", w, None, None) @@ [px |-> px, py |-> py, prev |-> xgeom[w]]
    /\ UNCHANGED <<floating, fmVars, srvVars, dragVars, barVars>>
    /\ UNCHANGED <<managed, focus, client_list, raised, wsVars, screen, xmapped, lmVars, layVars, deskVars, autoVars, ewmhVars, loopVars>>

\* WindowManager.end_drag()
EndDrag ==
    /\ last.n < MaxFmOps
    /\ drag_state' = NoDragState
    /\ last' = FmOp("end_drag", drag_state.mw, None, None)
    /\ UNCHANGED <<regVars, wsVars, xVars, lmVars, layVars, fmVars, deskVars, autoVars, ewmhVars, loopVars, srvVars, barVars>>

\* The pointer drives one session at a time: the dispatcher hands its events
\* to the FloatingManager, WindowManager's drag is driven by its own caller.
NextDrag ==
    \/ \E w \in FmWindows, detail \in 1 .. 3 : drag_state = NoDragState /\ FmButtonPress(w, detail)
    \/ \E d \in FmDeltas : FmMotionNotify(PressPoint[1] + d[1], PressPoint[2] + d[2])
    \/ FmButtonRelease
    \/ \E w \in FmWindows, mode \in {"move", "resize"} : fm_drag = NoDrag /\ StartDrag(w, mode)
    \/ \E d \in FmDeltas : Drag(PressPoint[1] + d[1], PressPoint[2] + d[2])
    \/ EndDrag

SpecDrag == InitFloat /\ [][NextDrag]_vars

\* the rectangle a drag began with
StartRect(d) == Rect(d.ox, d.oy, d.ow, d.oh)

\* C31: the rectangle a window has after a motion event of a drag is the
\* one the pointer's offset from the press gives when applied to the
\* rectangle of the press, whatever earlier motion events did: a move keeps
\* the starting size, a resize keeps the starting position.
C31_DragFromStart ==
    /\ (last.op \in {"move", "resize"} /\ "px" \in DOMAIN last) =>
           LET d == fm_drag
               r == xgeom[d.win]
               dx == last.px - d.sx
               dy == last.py - d.sy
           IN IF d.mode = "move"
              THEN <<r.x, r.y>> = snap(d.ox + dx, d.oy + dy, d.ow, d.oh, screen) /\ r.width = d.ow /\ r.height = d.oh
              ELSE r.x = d.ox /\ r.y = d.oy /\ r.width = Max(MIN_SIZE, d.ow + dx) /\ r.height = Max(MIN_SIZE, d.oh + dy)
    /\ last.op = "wm_drag" =>
           LET ds == drag_state
               sg == ds.start_geom
               r == xgeom[ds.mw]
               dx == last.px - ds.start_pointer[1]
               dy == last.py - ds.start_pointer[2]
           IN IF ds.mode = "move"
              THEN r = Rect(sg.x + dx, sg.y + dy, sg.width, sg.height)
              ELSE r = Rect(sg.x, sg.y, Max(WM_MIN_SIZE, sg.width + dx), Max(WM_MIN_SIZE, sg.height + dy))

\* a motion event of a move drag that found the window away from where the
\* drag began, an earlier motion having moved it
C31_Witness ==
    /\ last.op = "move" /\ "px" \in DOMAIN last
    /\ fm_drag.mode = "move"
    /\ <<last.prev.x, last.prev.y>> # <<fm_drag.ox, fm_drag.oy>>
    /\ xgeom[fm_drag.win] # last.prev
    /\ xgeom[fm_drag.win].width = fm_drag.ow

\* --------------------------------- release and idle events (managers/floating.py)
\* what the history keeps of the state an event found
Before == [geom |-> xgeom, pos |-> fm_positions, drag |-> fm_drag]

\* handle_motion_notify(ev) in any state: nothing happens while idle; the
\* configure of a destroyed window changes nothing
HandleMotionNotify(px, py) ==
    IF fm_drag # NoDrag /\ fm_drag.win \notin xgone
    THEN FmMotionNotify(px, py)
    ELSE /\ last.n < MaxFmOps
         /\ last' = FmOp("motion_ignored", fm_drag.win, Before, None)
         /\ UNCHANGED <<xgeom, fmVars, floating, cached_geom>>
         /\ FmFrame

\* handle_button_release(ev) in any state: nothing happens while idle
HandleButtonRelease ==
    /\ last.n < MaxFmOps
    /\ IF fm_drag = NoDrag
       THEN /\ last' = FmOp("release_idle", None, Before, None)
            /\ UNCHANGED <<fm_positions, fm_drag>>
       ELSE LET r == button_release(fm_drag, fm_positions, GeomOf(fm_drag.win), fm_drag.win \notin xgone)
            IN /\ fm_positions' = r.pos
               /\ fm_drag' = r.drag
               /\ last' = FmOp("release_drag", fm_drag.win, Before, None)
    /\ UNCHANGED <<xgeom, floating_windows, orig_geom, pre_float>>
    /\ UNCHANGED <<floating, cached_geom>>
    /\ FmFrame

NextRelease ==
    \/ \E w \in FmWindows \ xgone, detail \in 1 .. 3 : FmButtonPress(w, detail)
    \/ \E d \in FmDeltas : HandleMotionNotify(PressPoint[1] + d[1], PressPoint[2] + d[2])
    \/ HandleButtonRelease
    \/ \E w \in FmWindows : XDestroyWindow(w)

SpecRelease == InitFloat /\ [][NextRelease]_vars

\* C32: a button release during a drag ends the drag, also when the window's
\* geometry cannot be read, and stores the rectangle the window has under
\* the window's id (nothing is stored when it cannot be read); a motion or
\* a release while no drag is in progress changes no rectangle and no
\* stored position and leaves the controller idle.
C32_ReleaseEndsDrag ==
    /\ last.op = "release_drag" =>
           /\ fm_drag = NoDrag
           /\ IF last.win \in xgone THEN fm_positions = last.ret.req.pos
              ELSE fm_positions[last.win] = xgeom[last.win]
    /\ ((last.op = "release_idle" \/ (last.op = "motion_ignored" /\ last.ret.req.drag = NoDrag)) =>
           /\ fm_drag = NoDrag
           /\ xgeom = last.ret.req.geom
           /\ fm_positions = last.ret.req.pos)

\* a release that ended the drag of a window destroyed during the drag
C32_Witness ==
    /\ last.op = "release_drag"
    /\ last.win \in xgone
    /\ last.ret.req.drag # NoDrag
    /\ fm_drag = NoDrag

\* ----------------------------------- state requests and geometry (core/ewmh.py)
\* C33: once a well-formed request adding a maximized state has been handled
\* for a window, the window's rectangle is the full rectangle of the monitor
\* that owned it (and a later removal would bring the earlier rectangle back).
C33_MaximizeResizes ==
    (last.op = "net_wm_state" /\ last.words >= 3 /\ last.idx = 1 /\ NamesMax(last)) =>
        xgeom[last.win] = monitors[last.ret]

\* C34: once a well-formed request naming fullscreen with the add or the
\* toggle code has left the fullscreen flag set, the window's rectangle is
\* the full rectangle of the monitor that owned it.
C34_GeometryFollowsFullscreen ==
    (/\ last.op \in {"net_wm_state", "net_wm_state_add_fullscreen"}
     /\ last.words >= 3 /\ last.idx \in {1, 2} /\ NamesFs(last)
     /\ Contains(net_wm_state[last.win], FS)) =>
        xgeom[last.win] = monitors[last.ret]

\* the flags a request can name
StateAtoms == {FS, MAX_H, MAX_V, ABOVE}

\* whether a flag is set after action code `action` found it set or not
Acted(action, was) == IF action = 1 THEN TRUE ELSE IF action = 0 THEN FALSE ELSE ~was

\* C35: a well-formed request adds, removes or toggles each flag it names
\* and leaves every flag it does not name as it was.
C35_OnlyNamedFlags ==
    [][\A action \in 0 .. 2 : StateRequest(action) =>
          LET before == Range(net_wm_state[last'.win])
              after == Range(net_wm_state'[last'.win])
              named == {last'.a1, last'.a2} \ {NoAtom}
          IN  \A atom \in StateAtoms :
                  (atom \in after) <=> (IF atom \in named THEN Acted(action, atom \in before) ELSE atom \in before)]_vars

\* ------------------------------ client geometry requests (mywm1.0/main.py)
\* the fields a ConfigureRequest may carry (ev.value_mask)
ConfigMasks == {{"x", "y", "width", "height"}, {"x", "y"}, {"width", "height"}}

\* handle_configure_request(wm, ev): the values the mask selects are copied
\* from the event and xwin.configure(**values) is called on the window, for
\* whichever window sent the request. fl (the window is floating) and laid
\* (the rectangle of the layout) are not consulted.
configure_request(g, ev, mask, fl, laid) ==
    Rect(IF "x" \in mask THEN ev.x ELSE g.x, IF "y" \in mask THEN ev.y ELSE g.y,
         IF "width" \in mask THEN ev.width ELSE g.width, IF "height" \in mask THEN ev.height ELSE g.height)

HandleConfigureRequest(w, ev, mask) ==
    /\ xgeom' = [xgeom EXCEPT ![w] = configure_request(@, ev, mask, w \in floating, apply_layouts(managed, floating).geom[w])]
    /\ last' = Op("configure_request", w, ev, IndexOf(managed, w), Len(managed)) @@ [mask |-> mask, prev |-> xgeom[w]]
    /\ UNCHANGED <<regVars, wsVars, screen, xmapped, lmVars, layVars, extVars>>

\* the windows that send requests
ConfigWindows == 1 .. (MaxWin - 1)

NextConfigure ==
    \/ \E w \in ConfigWindows, fl \in BOOLEAN : Manage(w, fl)
    \/ \E w \in ConfigWindows : Unmanage(w)
    \/ \E w \in ConfigWindows, fl \in BOOLEAN : SetFloating(w, fl)
    \/ \E w \in ConfigWindows, mask \in ConfigMasks : HandleConfigureRequest(w, NewGeom, mask)

SpecConfigure == Init /\ [][NextConfigure]_vars

\* C36: a client's geometry request is honoured directly only for a floating
\* window; after the handler a managed window that is not floating has the
\* rectangle the active layout assigns to it, not the requested one.
C36_RequestDeferredToLayout ==
    (/\ last.op = "configure_request"
     /\ last.idx # 0
     /\ last.win \notin floating) =>
        xgeom[last.win] = apply_layouts(managed, floating).geom[last.win]


\* ------------------------------- layout switches and per-window bookkeeping
LayoutFrame == UNCHANGED <<regVars, wsVars, xVars, positions, current_tab, stack_current, layVars, extVars>>

\* LayoutManager.next_layout: only the index moves, nothing is applied
LayoutNext ==
    /\ lm_current' = (lm_current + 1) % NUM_LAYOUTS
    /\ last' = Op("next_layout", None, lm_current, 0, Len(managed))
    /\ LayoutFrame

\* LayoutManager.prev_layout
LayoutPrev ==
    /\ lm_current' = (lm_current - 1 + NUM_LAYOUTS) % NUM_LAYOUTS
    /\ last' = Op("prev_layout", None, lm_current, 0, Len(managed))
    /\ LayoutFrame

\* LayoutManager.set_layout(idx): an index outside the list is ignored
SetLayout(idx) ==
    /\ lm_current' = (IF 0 <= idx /\ idx < NUM_LAYOUTS THEN idx ELSE lm_current)
    /\ last' = Op("set_layout", None, lm_current, idx, Len(managed))
    /\ LayoutFrame

\* the windows managed and unmanaged while the layouts are switched
HookWindows == 1 .. (MaxWin - 1)

\* WindowManager.manage and unmanage end in apply_layouts and the on_manage /
\* on_unmanage callbacks; neither they nor anything else in the tree calls
\* LayoutManager.add_window or remove_window.
NextHooks ==
    \/ \E w \in HookWindows, fl \in BOOLEAN : Manage(w, fl)
    \/ \E w \in HookWindows : Unmanage(w)
    \/ LayoutNext
    \/ LayoutPrev
    \/ \E idx \in {-1, 2, NUM_LAYOUTS} : SetLayout(idx)

SpecHooks == Init /\ [][NextHooks]_vars

\* C37: after any sequence of manage / unmanage and layout switches the
\* floating layout remembers a position only for windows that are managed.
C37_PositionsOnlyForManaged ==
    \A w \in DOMAIN positions : Contains(managed, w)


\* ------------------------------- status bar (mywm1.0/managers/statusbar.py)
BarFrame == UNCHANGED <<regVars, wsVars, xVars, lmVars, layVars, fmVars, deskVars, autoVars, ewmhVars, loopVars, srvVars, dragVars>>

\* the positions inside StatusBar.redraw
InRedraw == {"clear", "draw1", "draw2", "flush"}

\* StatusBar._render_module(module): the text is read from the state dict at
\* the moment the module is drawn
render_module(module, st) == <<module, st[module]>>

\* One step of StatusBar.redraw by caller who at position pc: clear_area, one
\* draw_string per module, then dpy.flush, which sends whatever the connection
\* has buffered; done is where the caller continues.
redraw(pc, who, st, reqs, done) ==
    CASE pc = "clear" -> [pc |-> "draw1", reqs |-> Append(reqs, <<who, "clear_area">>)]
      [] pc = "draw1" -> [pc |-> "draw2", reqs |-> Append(reqs, <<who, render_module("workspace", st)>>)]
      [] pc = "draw2" -> [pc |-> "flush", reqs |-> Append(reqs, <<who, render_module("clock", st)>>)]
      [] OTHER -> [pc |-> done, reqs |-> <<>>]

\* _update_loop, first half of a pass: the thread writes self.state itself
UpdateLoopState ==
    /\ bar_thread_pc = "state"
    /\ bar_state.clock < MaxTicks
    /\ bar_state' = [bar_state EXCEPT !.clock = @ + 1]
    /\ bar_thread_pc' = "clear"
    /\ last' = Op("update_loop_state", None, bar_loop_pc, 0, Len(bar_reqs))
    /\ UNCHANGED <<bar_loop_pc, bar_reqs>>
    /\ BarFrame

\* _update_loop, second half: the thread calls self.redraw() itself
UpdateLoopRedraw ==
    /\ bar_thread_pc \in InRedraw
    /\ LET r == redraw(bar_thread_pc, "thread", bar_state, bar_reqs, "sleep")
       IN  bar_thread_pc' = r.pc /\ bar_reqs' = r.reqs
    /\ last' = Op("update_loop_redraw", None, bar_loop_pc, 0, Len(bar_reqs))
    /\ UNCHANGED <<bar_state, bar_loop_pc>>
    /\ BarFrame

\* _update_loop: time.sleep(1) returns and the next pass begins
UpdateLoopSleep ==
    /\ bar_thread_pc = "sleep"
    /\ bar_thread_pc' = "state"
    /\ last' = Op("update_loop_sleep", None, bar_loop_pc, 0, Len(bar_reqs))
    /\ UNCHANGED <<bar_state, bar_loop_pc, bar_reqs>>
    /\ BarFrame

\* StatusBar.update_workspace(name), called from the event loop
UpdateWorkspace(name) ==
    /\ bar_loop_pc = "idle"
    /\ bar_state' = [bar_state EXCEPT !.workspace = name]
    /\ bar_loop_pc' = "clear"
    /\ last' = Op("update_workspace", None, bar_thread_pc, 0, Len(bar_reqs))
    /\ UNCHANGED <<bar_thread_pc, bar_reqs>>
    /\ BarFrame

\* the redraw update_workspace ends with
UpdateWorkspaceRedraw ==
    /\ bar_loop_pc \in InRedraw
    /\ LET r == redraw(bar_loop_pc, "loop", bar_state, bar_reqs, "idle")
       IN  bar_loop_pc' = r.pc /\ bar_reqs' = r.reqs
    /\ last' = Op("update_workspace_redraw", None, bar_thread_pc, 0, Len(bar_reqs))
    /\ UNCHANGED <<bar_state, bar_thread_pc>>
    /\ BarFrame

NextBar ==
    \/ UpdateLoopState
    \/ UpdateLoopRedraw
    \/ UpdateLoopSleep
    \/ \E name \in {"1", "2"} : UpdateWorkspace(name)
    \/ UpdateWorkspaceRedraw

SpecBar == Init /\ [][NextBar]_vars

\* C38: the status bar's update thread and the event loop's handlers never
\* write the bar state or run redraw on the shared display connection at the
\* same time: the thread is never inside its own state write or redraw while
\* the loop is inside update_workspace.
C38_ThreadNeverConcurrent ==
    ~(bar_thread_pc \in InRedraw /\ bar_loop_pc \in InRedraw)


\* --------------------------------------- per-monitor active workspace index
\* the names add_workspace is called with
AddNames == {DefaultNames[MaxRmWs + 1]}

NextActive ==
    \/ \E name \in AddNames : AddWorkspace(name)
    \/ \E i \in RmIndexes : remove_workspace(i)
    \/ \E i \in RmIndexes, m \in 0 .. (NumMon - 1) : SwitchTo(i, m)
    \/ \E m \in 0 .. (NumMon - 1) : next_workspace(m)
    \/ \E m \in 0 .. (NumMon - 1) : prev_workspace(m)

SpecActive == InitRemove /\ [][NextActive]_vars

\* C39: whatever sequence of add_workspace, remove_workspace, switch_to,
\* next_workspace and prev_workspace has run, every monitor's active index is
\* an index of the workspace list, and remove_workspace leaves every monitor
\* that was not showing the removed workspace on the workspace it showed.
C39_ActiveIndexValid ==
    /\ [](\A m \in DOMAIN monitors_active : 0 <= monitors_active[m] /\ monitors_active[m] < Len(workspaces))
    /\ [][last'.op = "remove_workspace" =>
             \A m \in DOMAIN monitors_active :
                 monitors_active[m] # last'.ws =>
                     /\ monitors_active'[m] < Len(workspaces')
                     /\ workspaces'[monitors_active'[m] + 1].name = workspaces[monitors_active[m] + 1].name]_vars

\* the first of three workspaces has been removed while the second monitor
\* showed the third: it shows it still, now at index 1
C39_Witness ==
    /\ last.op = "remove_workspace" /\ last.ws = 0 /\ last.n = MaxRmWs
    /\ monitors_active[1] = 1
    /\ workspaces[2].name = DefaultNames[MaxRmWs]


\* ------------------------- floating controller and tiling (mywm1.0/main.py)
\* the windows mapped, floated and destroyed
TileWindows == 1 .. (MaxWin - 1)

\* FloatingManager.set_floating and toggle_floating keep their own set
\* (floating_windows); ManagedWindow.floating, which apply_layouts filters
\* on, is written by the WindowManager only, and WMContext has no
\* refresh_layout for set_floating to call.
NextFloatTile ==
    \/ \E w \in TileWindows : HandleMapRequest(w)
    \/ \E w \in TileWindows : HandleDestroyNotify(w)
    \/ \E w \in TileWindows, enable \in BOOLEAN : FmSetFloating(w, enable, TRUE)
    \/ \E w \in TileWindows : FmToggleFloating(w, TRUE)

SpecFloatTile == Init /\ [][NextFloatTile]_vars

\* C40: a window made floating through FloatingManager.set_floating or
\* toggle_floating is left out of tiling: when another window is managed or
\* unmanaged, apply_layouts does not pass the floating window to the layout
\* manager and its rectangle does not change.
C40_FloatingNotTiled ==
    [][(\/ last'.op = "map_request" /\ last'.idx = 0
        \/ last'.op = "destroy_notify") =>
            \A w \in floating_windows :
                (Contains(managed', w) /\ w # last'.win) =>
                    /\ ~Contains(Tiled(managed', floating'), w)
                    /\ xgeom'[w] = xgeom[w]]_vars

====
